---------------------------- MODULE Spec2Model ----------------------------
(***************************************************************************)
(* The TTL response cache of tardis_data_downloader (SimpleCache) and the  *)
(* TardisApi wrapper that owns it, from data/data_manager.py; the path     *)
(* resolver and the listings of TardisDataManager, from the same file; and *)
(* the date helpers of utils/date_utils.py.                                *)
(*                                                                         *)
(* Python values are modelled as follows.  A JSON document is the string   *)
(* of its text; Python's None is the string "None".  A dict is a function  *)
(* whose DOMAIN is the set of its keys.  A cache entry is the tuple        *)
(* <<data, timestamp, ttl>> the code stores.  An optional integer argument *)
(* is <<>> when omitted (None) and <<n>> when given.  An operation returns *)
(* a record whose exc field names the exception that left it (NoExc when   *)
(* it returned normally).  time.time() is the variable now, a clock that   *)
(* never runs backwards, in whole seconds.                                 *)
(*                                                                         *)
(* A Python str is a TLA+ string, read character by character with Len,    *)
(* Head, Tail and SubSeq.  A date argument is a record whose type field is *)
(* its Python class: NoneType, str (field s), date (year, month, day) or   *)
(* datetime / Timestamp (year, month, day, hour, minute; seconds are 0).   *)
(* An optional str argument is <<>> when omitted and <<s>> when given.  A  *)
(* pathlib.Path is the record [root, parts] of its anchor and its parts.   *)
(* The local file tree is the function disk from the paths it holds to     *)
(* "dir" or "file".                                                        *)
(***************************************************************************)
EXTENDS Integers, Sequences, FiniteSets, TLC

VARIABLES
    enable_cache,       \* TardisApi.enable_cache
    cache_ttl_seconds,  \* TardisApi.cache_ttl_seconds
    has_cache,          \* TardisApi.cache is a SimpleCache (FALSE: it is None)
    default_ttl,        \* SimpleCache.default_ttl
    cache,              \* SimpleCache.cache, the dict fingerprint -> entry
    now,                \* the value time.time() returns
    op,                 \* history: the last call, [name, url]
    ret,                \* history: what the last call returned
    exc,                \* history: the exception the last call raised
    net,                \* history: network requests the last call issued
    before,             \* history: len(cache) when the last call started
    lastSet,            \* history: per fingerprint, the entry of the last
                        \* set not followed by an invalidate or a clear
    manager,            \* the TardisDataManager: [root_dir, exchange, format]
    disk,               \* the local file tree
    downloads,          \* history: the calls of the vendor's download client
                        \* the last call issued
    threads             \* per thread, the cache operation it is in: its
                        \* place in the code, its locals and its outcome

vars == <<enable_cache, cache_ttl_seconds, has_cache, default_ttl, cache,
          now, op, ret, exc, net, before, lastSet,
          manager, disk, downloads, threads>>

config == <<enable_cache, cache_ttl_seconds, has_cache, default_ttl>>

(***************************************************************************)
(* Bounds of the model.                                                    *)
(***************************************************************************)
MaxTime == 2
LongTtl == 2
ShortTtl == 1
MaxSpan == 4

None == "None"
NoExc == "none"
KeyError == "KeyError"
RequestException == "requests.RequestException"

\* JSON documents the endpoint answers with; "{}" is falsy in Python.
Payloads == {"{}", "{id:deribit}"}

\* What requests.get / raise_for_status / json can do: a document or a raise.
Responses == Payloads \cup {RequestException}

\* Seconds a network request may take.
NetDelays == {0, 1}

\* cache_ttl_seconds given to the constructor; ttl_seconds given to set.
CtorTtls == {0, LongTtl}
TtlArgs == {<<>>, <<-1>>, <<0>>, <<ShortTtl>>}

Exchanges == {"deribit"}

exchanges_url == "https://api.tardis.dev/v1/exchanges/"

exchange_details_url(exchange) == "https://api.tardis.dev/v1/exchanges/" \o exchange

\* Two distinct ASCII strings with the same MD5 digest.
CollidingA == "TEXTCOLLBYfGiJUETHQ4hAcKSMd5zYpgqf1YRDhkmxHkhPWptrkoyz28wnI9V0aHeAuaKnak"
CollidingB == "TEXTCOLLBYfGiJUETHQ4hEcKSMd5zYpgqf1YRDhkmxHkhPWptrkoyz28wnI9V0aHeAuaKnak"

\* The request strings of the API wrapper, and a corpus of arbitrary keys.
Urls == {exchanges_url} \cup {exchange_details_url(e) : e \in Exchanges}
Keys == {exchanges_url, CollidingA, CollidingB}

(***************************************************************************)
(* hashlib.md5(url.encode()).hexdigest(): the digests of the strings the   *)
(* model uses, as MD5 computes them.                                       *)
(***************************************************************************)
_get_cache_key(url) ==
    CASE url = "https://api.tardis.dev/v1/exchanges/"
            -> "c2a172f2d022c40e9af32ed592f57517"
      [] url = "https://api.tardis.dev/v1/exchanges/deribit"
            -> "d2aa7efc4250aef294900c0108536244"
      [] url = CollidingA -> "faad49866e9498fc1719f5289e7a0269"
      [] url = CollidingB -> "faad49866e9498fc1719f5289e7a0269"

(***************************************************************************)
(* Python dict operations.                                                 *)
(***************************************************************************)
dict_len(d) == Cardinality(DOMAIN d)

dict_empty == <<>>

\* d[key] = value
dict_setitem(d, key, value) ==
    [k \in DOMAIN d \cup {key} |-> IF k = key THEN value ELSE d[k]]

\* del d[key]: KeyError when key is not in d
dict_delitem(d, key) ==
    IF key \in DOMAIN d
    THEN [exc |-> NoExc, dict |-> [k \in DOMAIN d \ {key} |-> d[k]]]
    ELSE [exc |-> KeyError, dict |-> d]

\* d[key]: KeyError when key is not in d
dict_getitem(d, key) ==
    IF key \in DOMAIN d
    THEN [exc |-> NoExc, value |-> d[key]]
    ELSE [exc |-> KeyError, value |-> <<None, 0, 0>>]

(***************************************************************************)
(* SimpleCache                                                             *)
(***************************************************************************)
\* Variants of SimpleCache.get with a slip in it: an entry still served at
\* the instant it expires; an expired entry reported absent but left in the
\* dict; every expired entry swept out by the one read.
SimpleCache_get_served_at_expiry(c, url, time) ==
    LET key == _get_cache_key(url) IN
    IF key \in DOMAIN c
    THEN IF time - c[key][2] <= c[key][3]
         THEN [exc |-> NoExc, ret |-> c[key][1], cache |-> c]
         ELSE [exc |-> NoExc, ret |-> None, cache |-> dict_delitem(c, key).dict]
    ELSE [exc |-> NoExc, ret |-> None, cache |-> c]

SimpleCache_get_no_delete(c, url, time) ==
    LET key == _get_cache_key(url) IN
    IF key \in DOMAIN c /\ time - c[key][2] < c[key][3]
    THEN [exc |-> NoExc, ret |-> c[key][1], cache |-> c]
    ELSE [exc |-> NoExc, ret |-> None, cache |-> c]

SimpleCache_get_sweep(c, url, time) ==
    LET key == _get_cache_key(url) IN
    IF key \in DOMAIN c /\ time - c[key][2] < c[key][3]
    THEN [exc |-> NoExc, ret |-> c[key][1], cache |-> c]
    ELSE [exc |-> NoExc, ret |-> None,
          cache |-> [k \in {x \in DOMAIN c : time - c[x][2] < c[x][3]} |-> c[k]]]

\* SimpleCache.get with a slip in it: a hit refreshes the timestamp of the
\* entry it serves.
SimpleCache_get_refreshing(c, url, time) ==
    LET key == _get_cache_key(url) IN
    IF key \in DOMAIN c
    THEN IF time - c[key][2] < c[key][3]
         THEN [exc |-> NoExc, ret |-> c[key][1],
               cache |-> dict_setitem(c, key, <<c[key][1], time, c[key][3]>>)]
         ELSE [exc |-> NoExc, ret |-> None, cache |-> dict_delitem(c, key).dict]
    ELSE [exc |-> NoExc, ret |-> None, cache |-> c]

\* SimpleCache.get: [exc, ret, cache]
SimpleCache_get(c, url, time) ==
    LET key == _get_cache_key(url) IN
    IF key \in DOMAIN c
    THEN LET item == dict_getitem(c, key)
             data == item.value[1]
             timestamp == item.value[2]
             ttl == item.value[3]
         IN  IF item.exc # NoExc
             THEN [exc |-> item.exc, ret |-> None, cache |-> c]
             ELSE IF time - timestamp < ttl
             THEN [exc |-> NoExc, ret |-> data, cache |-> c]
             ELSE LET del == dict_delitem(c, key)
                  IN  [exc |-> del.exc, ret |-> None, cache |-> del.dict]
    ELSE [exc |-> NoExc, ret |-> None, cache |-> c]

\* SimpleCache.set with a slip in it: an existing entry is kept (setdefault).
SimpleCache_set_keep_existing(c, url, data, ttl_seconds, dflt, time) ==
    LET key == _get_cache_key(url)
        ttl == IF ttl_seconds # <<>> THEN ttl_seconds[1] ELSE dflt
    IN  [exc |-> NoExc, ret |-> None,
         cache |-> IF key \in DOMAIN c THEN c
                   ELSE dict_setitem(c, key, <<data, time, ttl>>)]

\* SimpleCache.set with a slip in it: the ttl is tested for truth
\* (`ttl_seconds or self.default_ttl`), so 0 is replaced by the default.
SimpleCache_set_falsy_default(c, url, data, ttl_seconds, dflt, time) ==
    LET key == _get_cache_key(url)
        ttl == IF ttl_seconds # <<>> /\ ttl_seconds[1] # 0
               THEN ttl_seconds[1] ELSE dflt
    IN  [exc |-> NoExc, ret |-> None,
         cache |-> dict_setitem(c, key, <<data, time, ttl>>)]

\* SimpleCache.set: [exc, ret, cache]
SimpleCache_set(c, url, data, ttl_seconds, dflt, time) ==
    LET key == _get_cache_key(url)
        ttl == IF ttl_seconds # <<>> THEN ttl_seconds[1] ELSE dflt
    IN  [exc |-> NoExc, ret |-> None,
         cache |-> dict_setitem(c, key, <<data, time, ttl>>)]

\* SimpleCache.clear with a slip in it: a new dict bound to a local name.
SimpleCache_clear_local_rebind(c) == [exc |-> NoExc, ret |-> None, cache |-> c]

\* SimpleCache.clear: [exc, ret, cache]
SimpleCache_clear(c) == [exc |-> NoExc, ret |-> None, cache |-> dict_empty]

\* The loop with a slip in it: an entry is not counted at the instant it
\* expires.
RECURSIVE count_expired_strict(_, _, _)
count_expired_strict(c, keys, current_time) ==
    IF keys = {} THEN 0
    ELSE LET key == CHOOSE k \in keys : TRUE
         IN  (IF current_time - c[key][2] > c[key][3] THEN 1 ELSE 0)
             + count_expired_strict(c, keys \ {key}, current_time)

\* the loop of SimpleCache.get_stats over the items of the dict
RECURSIVE count_expired(_, _, _)
count_expired(c, keys, current_time) ==
    IF keys = {} THEN 0
    ELSE LET key == CHOOSE k \in keys : TRUE
             timestamp == c[key][2]
             ttl == c[key][3]
         IN  (IF current_time - timestamp >= ttl THEN 1 ELSE 0)
             + count_expired(c, keys \ {key}, current_time)

\* SimpleCache.get_stats with a slip in it: the expired entries it counts
\* are dropped from the dict.
SimpleCache_get_stats_purging(c, time) ==
    LET live == {k \in DOMAIN c : time - c[k][2] < c[k][3]}
    IN  [exc |-> NoExc,
         ret |-> [total_entries |-> dict_len(c),
                  expired_entries |-> dict_len(c) - Cardinality(live),
                  active_entries |-> Cardinality(live)],
         cache |-> [k \in live |-> c[k]]]

\* SimpleCache.get_stats: [exc, ret, cache]
SimpleCache_get_stats(c, time) ==
    LET total_entries == dict_len(c)
        expired_entries == count_expired(c, DOMAIN c, time)
    IN  [exc |-> NoExc,
         ret |-> [total_entries |-> total_entries,
                  expired_entries |-> expired_entries,
                  active_entries |-> total_entries - expired_entries],
         cache |-> c]

(***************************************************************************)
(* TardisApi                                                               *)
(***************************************************************************)
\* TardisApi.__init__ with a slip in it: the SimpleCache is always built.
TardisApi_init_always_builds(enable) == TRUE

\* TardisApi.__init__: whether self.cache is a SimpleCache
TardisApi_init_has_cache(enable) == enable

\* `self.enable_cache and self.cache`: a SimpleCache object is always truthy
cache_in_use == enable_cache /\ has_cache

DisabledStats == [error |-> "Caching is not enabled"]

\* TardisApi._call_api with a slip in it: the cached value is tested for
\* truth (`if cached_data:`) instead of `is not None`.
_call_api_truthy_hit(c, url, time, resp, delay) ==
    LET looked == IF cache_in_use
                  THEN SimpleCache_get(c, url, time)
                  ELSE [exc |-> NoExc, ret |-> None, cache |-> c]
    IN  IF cache_in_use /\ looked.ret \notin {None, "{}"}
        THEN [exc |-> NoExc, ret |-> looked.ret, cache |-> looked.cache,
              net |-> 0, now |-> time, stored |-> FALSE]
        ELSE IF resp = RequestException
        THEN [exc |-> RequestException, ret |-> None, cache |-> looked.cache,
              net |-> 1, now |-> time + delay, stored |-> FALSE]
        ELSE [exc |-> NoExc, ret |-> resp,
              cache |-> IF cache_in_use
                        THEN SimpleCache_set(looked.cache, url, resp,
                                 <<cache_ttl_seconds>>, default_ttl,
                                 time + delay).cache
                        ELSE looked.cache,
              net |-> 1, now |-> time + delay, stored |-> cache_in_use]

\* TardisApi._call_api with a slip in it: the lookup leaves an expired entry
\* in the dict.
_call_api_keeps_expired(c, url, time, resp, delay) ==
    LET looked == IF cache_in_use
                  THEN SimpleCache_get_no_delete(c, url, time)
                  ELSE [exc |-> NoExc, ret |-> None, cache |-> c]
    IN  IF cache_in_use /\ looked.ret # None
        THEN [exc |-> NoExc, ret |-> looked.ret, cache |-> looked.cache,
              net |-> 0, now |-> time, stored |-> FALSE]
        ELSE IF resp = RequestException
        THEN [exc |-> RequestException, ret |-> None, cache |-> looked.cache,
              net |-> 1, now |-> time + delay, stored |-> FALSE]
        ELSE [exc |-> NoExc, ret |-> resp,
              cache |-> IF cache_in_use
                        THEN SimpleCache_set(looked.cache, url, resp,
                                 <<cache_ttl_seconds>>, default_ttl,
                                 time + delay).cache
                        ELSE looked.cache,
              net |-> 1, now |-> time + delay, stored |-> cache_in_use]

\* TardisApi._call_api with the answer resp of the network, which takes
\* delay seconds: [exc, ret, cache, net, now, stored]; net counts the requests
\* and stored tells whether self.cache.set ran
_call_api(c, url, time, resp, delay) ==
    LET looked == IF cache_in_use
                  THEN SimpleCache_get(c, url, time)
                  ELSE [exc |-> NoExc, ret |-> None, cache |-> c]
    IN  IF looked.exc # NoExc
        THEN [exc |-> looked.exc, ret |-> None, cache |-> looked.cache,
              net |-> 0, now |-> time, stored |-> FALSE]
        ELSE IF cache_in_use /\ looked.ret # None
        THEN [exc |-> NoExc, ret |-> looked.ret, cache |-> looked.cache,
              net |-> 0, now |-> time, stored |-> FALSE]
        ELSE IF resp = RequestException
        THEN [exc |-> RequestException, ret |-> None, cache |-> looked.cache,
              net |-> 1, now |-> time + delay, stored |-> FALSE]
        ELSE [exc |-> NoExc, ret |-> resp,
              cache |-> IF cache_in_use
                        THEN SimpleCache_set(looked.cache, url, resp,
                                 <<cache_ttl_seconds>>, default_ttl,
                                 time + delay).cache
                        ELSE looked.cache,
              net |-> 1, now |-> time + delay, stored |-> cache_in_use]

\* The handler with a slip in it: the exception is logged and raised again.
catch_all_reraises(r) == r

\* `except Exception as e: ... return {}`
catch_all(r) ==
    IF r.exc # NoExc THEN [r EXCEPT !.exc = NoExc, !.ret = "{}"] ELSE r

\* TardisApi.invalidate_cache_entry with a slip in it: the whole dict is
\* cleared to force the miss; the `in` test before the del is missing.
invalidate_by_clearing(c, url) ==
    IF cache_in_use
    THEN [exc |-> NoExc, ret |-> (_get_cache_key(url) \in DOMAIN c),
          cache |-> dict_empty]
    ELSE [exc |-> NoExc, ret |-> FALSE, cache |-> c]

invalidate_unguarded(c, url) ==
    IF cache_in_use
    THEN LET del == dict_delitem(c, _get_cache_key(url))
         IN  [exc |-> del.exc, ret |-> (del.exc = NoExc), cache |-> del.dict]
    ELSE [exc |-> NoExc, ret |-> FALSE, cache |-> c]

\* TardisApi.invalidate_cache_entry with a slip in it: the entry is found
\* and reported, and the del is missing.
invalidate_reports_only(c, url) ==
    IF cache_in_use
    THEN [exc |-> NoExc, ret |-> (_get_cache_key(url) \in DOMAIN c), cache |-> c]
    ELSE [exc |-> NoExc, ret |-> FALSE, cache |-> c]

\* TardisApi.invalidate_cache_entry: [exc, ret, cache]
invalidate_cache_entry(c, url) ==
    IF cache_in_use
    THEN LET key == _get_cache_key(url) IN
         IF key \in DOMAIN c
         THEN LET del == dict_delitem(c, key)
              IN  [exc |-> del.exc, ret |-> (del.exc = NoExc), cache |-> del.dict]
         ELSE [exc |-> NoExc, ret |-> FALSE, cache |-> c]
    ELSE [exc |-> NoExc, ret |-> FALSE, cache |-> c]

\* TardisApi.clear_cache: [exc, ret, cache]
clear_cache(c) ==
    IF cache_in_use
    THEN SimpleCache_clear(c)
    ELSE [exc |-> NoExc, ret |-> None, cache |-> c]

\* TardisApi.get_cache_stats: [exc, ret, cache]
get_cache_stats(c, time) ==
    IF cache_in_use
    THEN SimpleCache_get_stats(c, time)
    ELSE [exc |-> NoExc, ret |-> DisabledStats, cache |-> c]

\* TardisApi.is_cache_enabled
is_cache_enabled == enable_cache

\* TardisApi.get_exchanges: `except Exception: return {}` around _call_api
get_exchanges(c, time, resp, delay) ==
    catch_all(_call_api(c, exchanges_url, time, resp, delay))

\* TardisApi.get_exchange_details
get_exchange_details(c, exchange, time, resp, delay) ==
    catch_all(_call_api(c, exchange_details_url(exchange), time, resp, delay))

(***************************************************************************)
(* Python str and int                                                      *)
(***************************************************************************)
ValueError == "ValueError"
TypeError == "TypeError"
AttributeError == "AttributeError"
FileNotFoundError == "FileNotFoundError"
IndexError == "IndexError"

\* the character of s at position i (from 1), or "" past its end
Char(s, i) == IF 1 <= i /\ i <= Len(s) THEN SubSeq(s, i, i) ELSE ""

DecimalDigits == "0123456789"

IsDigit(c) == \E n \in 0..9 : c = Char(DecimalDigits, n + 1)

NonZeroDigit(c) == \E n \in 1..9 : c = Char(DecimalDigits, n + 1)

DigitValue(c) == CHOOSE n \in 0..9 : c = Char(DecimalDigits, n + 1)

\* int(s) of a run of digits, after the blanks int() strips
RECURSIVE int_of(_, _)
int_of(s, acc) ==
    IF s = "" THEN acc
    ELSE IF Head(s) = " " THEN int_of(Tail(s), acc)
    ELSE int_of(Tail(s), 10 * acc + DigitValue(Head(s)))

\* str(n) of a natural number
RECURSIVE str_of(_)
str_of(n) ==
    IF n < 10 THEN Char(DecimalDigits, n + 1)
    ELSE str_of(n \div 10) \o Char(DecimalDigits, (n % 10) + 1)

\* the "%02d" and "%04d" of the C formatting
RECURSIVE zfill(_, _)
zfill(s, width) == IF Len(s) >= width THEN s ELSE zfill("0" \o s, width)

(***************************************************************************)
(* datetime: the calendar, strptime, strftime, isoformat                   *)
(***************************************************************************)
NoDate == [type |-> "NoneType"]

str(s) == [type |-> "str", s |-> s]

date(year, month, day) ==
    [type |-> "date", year |-> year, month |-> month, day |-> day]

datetime(year, month, day, hour, minute) ==
    [type |-> "datetime", year |-> year, month |-> month, day |-> day,
     hour |-> hour, minute |-> minute]

Timestamp(year, month, day, hour, minute) ==
    [type |-> "Timestamp", year |-> year, month |-> month, day |-> day,
     hour |-> hour, minute |-> minute]

\* class datetime(date), class Timestamp(datetime)
isinstance(v, class) ==
    CASE v.type = "date" -> class = "date"
      [] v.type = "datetime" -> class \in {"datetime", "date"}
      [] v.type = "Timestamp" -> class \in {"Timestamp", "datetime", "date"}
      [] OTHER -> class = v.type

is_leap(year) == year % 4 = 0 /\ (year % 100 # 0 \/ year % 400 = 0)

days_in_month(year, month) ==
    CASE month \in {1, 3, 5, 7, 8, 10, 12} -> 31
      [] month \in {4, 6, 9, 11} -> 30
      [] OTHER -> IF is_leap(year) THEN 29 ELSE 28

\* datetime.date(): the date part of a datetime or a Timestamp
date_of(v) == date(v.year, v.month, v.day)

\* The alternatives of the directives of _strptime, in the order the regular
\* expression tries them:  %m is 1[0-2]|0[1-9]|[1-9]  and
\* %d is 3[0-1]|[1-2]\d|0[1-9]|[1-9]| [1-9]
MonthLen(a) == IF a = 3 THEN 1 ELSE 2

MonthMatch(s, i, a) ==
    CASE a = 1 -> Char(s, i) = "1" /\ Char(s, i + 1) \in {"0", "1", "2"}
      [] a = 2 -> Char(s, i) = "0" /\ NonZeroDigit(Char(s, i + 1))
      [] a = 3 -> NonZeroDigit(Char(s, i))

DayLen(b) == IF b = 4 THEN 1 ELSE 2

DayMatch(s, j, b) ==
    CASE b = 1 -> Char(s, j) = "3" /\ Char(s, j + 1) \in {"0", "1"}
      [] b = 2 -> Char(s, j) \in {"1", "2"} /\ IsDigit(Char(s, j + 1))
      [] b = 3 -> Char(s, j) = "0" /\ NonZeroDigit(Char(s, j + 1))
      [] b = 4 -> NonZeroDigit(Char(s, j))
      [] b = 5 -> Char(s, j) = " " /\ NonZeroDigit(Char(s, j + 1))

\* the literal between the directives of "%Y-%m-%d", "%Y%m%d", "%Y/%m/%d"
Separator(fmt) == IF Len(fmt) = 8 THEN Char(fmt, 3) ELSE ""

\* datetime.datetime.strptime(data_string, fmt) for the three formats above:
\* the first match of the regular expression, which must use the whole
\* string, and then a date of the calendar.  [exc, value]
strptime(data_string, fmt) ==
    LET sep == Separator(fmt)
        at(i) == sep = "" \/ Char(data_string, i) = sep
        m0 == 5 + Len(sep)
        d0(a) == m0 + MonthLen(a) + Len(sep)
        found == {ab \in (1..3) \X (1..5) :
                     /\ MonthMatch(data_string, m0, ab[1])
                     /\ at(m0 + MonthLen(ab[1]))
                     /\ DayMatch(data_string, d0(ab[1]), ab[2])}
        first == CHOOSE ab \in found :
                     \A cd \in found :
                         ab[1] < cd[1] \/ (ab[1] = cd[1] /\ ab[2] <= cd[2])
        end == d0(first[1]) + DayLen(first[2])
        year == int_of(SubSeq(data_string, 1, 4), 0)
        month == int_of(SubSeq(data_string, m0, m0 + MonthLen(first[1]) - 1), 0)
        day == int_of(SubSeq(data_string, d0(first[1]), end - 1), 0)
        failed == [exc |-> ValueError, value |-> NoDate]
    IN  IF \/ \E i \in 1..4 : ~IsDigit(Char(data_string, i))
           \/ ~at(5)
           \/ found = {}
        THEN failed
        ELSE IF end # Len(data_string) + 1
        THEN failed
        ELSE IF year < 1 \/ day > days_in_month(year, month)
        THEN failed
        ELSE [exc |-> NoExc, value |-> datetime(year, month, day, 0, 0)]

\* strftime("%Y-%m-%d"): the C library prints %Y without padding
strftime(v) ==
    str_of(v.year) \o "-" \o zfill(str_of(v.month), 2) \o "-" \o zfill(str_of(v.day), 2)

\* isoformat() of a date, and of a datetime or a Timestamp
isoformat(v) ==
    LET ymd == zfill(str_of(v.year), 4) \o "-" \o zfill(str_of(v.month), 2)
               \o "-" \o zfill(str_of(v.day), 2)
    IN  IF v.type = "date" THEN ymd
        ELSE ymd \o "T" \o zfill(str_of(v.hour), 2) \o ":"
                 \o zfill(str_of(v.minute), 2) \o ":00"

(***************************************************************************)
(* utils/date_utils.py                                                     *)
(***************************************************************************)
\* to_date_string: [exc, ret]
to_date_string(d) ==
    IF d.type = "NoneType" THEN [exc |-> NoExc, ret |-> None]
    ELSE IF isinstance(d, "str")
    THEN IF strptime(d.s, "%Y-%m-%d").exc = NoExc
         THEN [exc |-> NoExc, ret |-> d.s]
         ELSE IF strptime(d.s, "%Y%m%d").exc = NoExc
         THEN [exc |-> NoExc, ret |-> strftime(strptime(d.s, "%Y%m%d").value)]
         ELSE IF strptime(d.s, "%Y/%m/%d").exc = NoExc
         THEN [exc |-> NoExc, ret |-> strftime(strptime(d.s, "%Y/%m/%d").value)]
         ELSE [exc |-> ValueError, ret |-> None]
    ELSE IF isinstance(d, "date")
    THEN [exc |-> NoExc, ret |-> isoformat(d)]
    ELSE IF isinstance(d, "datetime")
    THEN [exc |-> NoExc, ret |-> isoformat(date_of(d))]
    ELSE IF isinstance(d, "Timestamp")
    THEN [exc |-> NoExc, ret |-> isoformat(date_of(d))]
    ELSE [exc |-> ValueError, ret |-> None]

\* parse_date: [exc, ret]
parse_date(d) ==
    IF d.type = "NoneType" THEN [exc |-> NoExc, ret |-> NoDate]
    ELSE IF isinstance(d, "str")
    THEN LET date_str == to_date_string(d)
             parsed == strptime(date_str.ret, "%Y-%m-%d")
         IN  IF date_str.exc # NoExc
             THEN [exc |-> date_str.exc, ret |-> NoDate]
             ELSE IF parsed.exc # NoExc
             THEN [exc |-> parsed.exc, ret |-> NoDate]
             ELSE [exc |-> NoExc, ret |-> date_of(parsed.value)]
    ELSE IF isinstance(d, "date")
    THEN [exc |-> NoExc, ret |-> d]
    ELSE IF isinstance(d, "datetime")
    THEN [exc |-> NoExc, ret |-> date_of(d)]
    ELSE IF isinstance(d, "Timestamp")
    THEN [exc |-> NoExc, ret |-> date_of(d)]
    ELSE [exc |-> ValueError, ret |-> NoDate]

(***************************************************************************)
(* pandas: Timestamp arithmetic and pd.date_range(start, end, freq="D")    *)
(***************************************************************************)
\* pd.Timestamp(v) of a date, a datetime or a Timestamp
to_timestamp(v) ==
    IF v.type = "date" THEN Timestamp(v.year, v.month, v.day, 0, 0)
    ELSE Timestamp(v.year, v.month, v.day, v.hour, v.minute)

\* v + pd.Timedelta(days=1)
add_day(v) ==
    IF v.day < days_in_month(v.year, v.month)
    THEN [v EXCEPT !.day = v.day + 1]
    ELSE IF v.month < 12
    THEN [v EXCEPT !.day = 1, !.month = v.month + 1]
    ELSE [v EXCEPT !.day = 1, !.month = 1, !.year = v.year + 1]

\* the order of two values of the same kind: by date, then by time of day
instant(v) ==
    <<v.year, v.month, v.day,
      IF v.type = "date" THEN 0 ELSE v.hour,
      IF v.type = "date" THEN 0 ELSE v.minute>>

RECURSIVE tuple_lt(_, _)
tuple_lt(a, b) ==
    IF Len(a) = 0 THEN FALSE
    ELSE IF a[1] # b[1] THEN a[1] < b[1]
    ELSE tuple_lt(Tail(a), Tail(b))

\* a > b of Python: a date and a datetime do not compare.  [exc, ret]
date_gt(a, b) ==
    IF (a.type = "date") # (b.type = "date")
    THEN [exc |-> TypeError, ret |-> FALSE]
    ELSE [exc |-> NoExc, ret |-> tuple_lt(instant(b), instant(a))]

\* pd.date_range(start=start, end=end, freq="D"): start, start + 1 day, ...
\* up to end, the time of day of start kept
RECURSIVE pd_date_range(_, _)
pd_date_range(start, end) ==
    IF tuple_lt(instant(end), instant(start)) THEN <<>>
    ELSE <<start>> \o pd_date_range(add_day(start), end)

\* DatetimeIndex.strftime("%Y-%m-%d")
index_strftime(series) ==
    [i \in 1..Len(series) |-> isoformat(date_of(series[i]))]

valid_inclusive == {"both", "neither", "left", "right"}

\* date_range with a slip in it: the bounds are not compared.
date_range_unchecked(start_date, end_date, inclusive, to_str, today) ==
    LET start == IF start_date.type = "NoneType" THEN today ELSE start_date
        end == IF end_date.type = "NoneType" THEN start ELSE end_date
        start_date_parsed == parse_date(start)
        end_date_parsed == parse_date(end)
        date_range_series ==
            pd_date_range(to_timestamp(start_date_parsed.ret),
                          to_timestamp(end_date_parsed.ret))
        n == Len(date_range_series)
        trimmed ==
            CASE inclusive = "neither" ->
                    IF n >= 2 THEN SubSeq(date_range_series, 2, n - 1) ELSE <<>>
              [] inclusive = "left" ->
                    IF n >= 1 THEN SubSeq(date_range_series, 1, n - 1) ELSE <<>>
              [] inclusive = "right" ->
                    IF n >= 1 THEN SubSeq(date_range_series, 2, n) ELSE <<>>
              [] OTHER -> date_range_series
    IN  IF start_date_parsed.exc # NoExc
        THEN [exc |-> start_date_parsed.exc, ret |-> None]
        ELSE IF end_date_parsed.exc # NoExc
        THEN [exc |-> end_date_parsed.exc, ret |-> None]
        ELSE [exc |-> NoExc,
              ret |-> IF to_str THEN index_strftime(trimmed) ELSE trimmed]

\* date_range: [exc, ret]; today is what datetime.date.today() returns
date_range(start_date, end_date, inclusive, to_str, today) ==
    LET start == IF start_date.type = "NoneType" THEN today ELSE start_date
        end == IF end_date.type = "NoneType" THEN start ELSE end_date
        start_date_parsed == parse_date(start)
        end_date_parsed == parse_date(end)
        after == date_gt(start_date_parsed.ret, end_date_parsed.ret)
        date_range_series ==
            pd_date_range(to_timestamp(start_date_parsed.ret),
                          to_timestamp(end_date_parsed.ret))
        n == Len(date_range_series)
        trimmed ==
            CASE inclusive = "neither" ->
                    IF n >= 2 THEN SubSeq(date_range_series, 2, n - 1) ELSE <<>>
              [] inclusive = "left" ->
                    IF n >= 1 THEN SubSeq(date_range_series, 1, n - 1) ELSE <<>>
              [] inclusive = "right" ->
                    IF n >= 1 THEN SubSeq(date_range_series, 2, n) ELSE <<>>
              [] OTHER -> date_range_series
    IN  IF start_date_parsed.exc # NoExc
        THEN [exc |-> start_date_parsed.exc, ret |-> None]
        ELSE IF end_date_parsed.exc # NoExc
        THEN [exc |-> end_date_parsed.exc, ret |-> None]
        ELSE IF   start_date_parsed.ret.type = "NoneType"
               \/ end_date_parsed.ret.type = "NoneType"
        THEN [exc |-> ValueError, ret |-> None]
        ELSE IF after.exc # NoExc
        THEN [exc |-> after.exc, ret |-> None]
        ELSE IF after.ret
        THEN [exc |-> ValueError, ret |-> None]
        ELSE IF inclusive \notin valid_inclusive
        THEN [exc |-> ValueError, ret |-> None]
        ELSE [exc |-> NoExc,
              ret |-> IF to_str THEN index_strftime(trimmed) ELSE trimmed]

(***************************************************************************)
(* pathlib (PurePosixPath and the calls of Path that read the file tree)   *)
(***************************************************************************)
\* the parts of a path string: cut at "/", without the "" and "." parts
RECURSIVE split_parts(_, _, _)
split_parts(s, part, parts) ==
    LET done == IF part \in {"", "."} THEN parts ELSE Append(parts, part)
    IN  IF s = "" THEN done
        ELSE IF Head(s) = "/" THEN split_parts(Tail(s), "", done)
        ELSE split_parts(Tail(s), part \o Head(s), parts)

\* Path(s)
Path(s) ==
    [root |-> IF Char(s, 1) = "/" THEN "/" ELSE "",
     parts |-> split_parts(s, "", <<>>)]

\* path / s: an absolute s replaces the path
truediv(path, s) ==
    IF Char(s, 1) = "/" THEN Path(s)
    ELSE [root |-> path.root, parts |-> path.parts \o split_parts(s, "", <<>>)]

RECURSIVE join_parts(_)
join_parts(parts) ==
    IF Len(parts) = 0 THEN ""
    ELSE IF Len(parts) = 1 THEN parts[1]
    ELSE parts[1] \o "/" \o join_parts(Tail(parts))

\* str(path)
path_str(path) ==
    IF Len(path.parts) = 0
    THEN (IF path.root = "/" THEN "/" ELSE ".")
    ELSE path.root \o join_parts(path.parts)

\* path.name
path_name(path) ==
    IF Len(path.parts) = 0 THEN "" ELSE path.parts[Len(path.parts)]

\* path.parent
path_parent(path) ==
    [root |-> path.root,
     parts |-> IF Len(path.parts) = 0 THEN <<>>
               ELSE SubSeq(path.parts, 1, Len(path.parts) - 1)]

\* name.rfind("."), counted from 1; 0 when there is no dot
rfind_dot(name) ==
    LET dots == {i \in 1..Len(name) : Char(name, i) = "."}
    IN  IF dots = {} THEN 0 ELSE CHOOSE i \in dots : \A j \in dots : j <= i

\* path.stem: the name without its last suffix
path_stem(path) ==
    LET name == path_name(path)
        i == rfind_dot(name)
    IN  IF 1 < i /\ i < Len(name) THEN SubSeq(name, 1, i - 1) ELSE name

\* path.exists(), path.is_dir(): the tree maps each path it holds to "dir"
\* or "file"
path_exists(tree, path) == path \in DOMAIN tree

path_is_dir(tree, path) == path_exists(tree, path) /\ tree[path] = "dir"

\* the entries of the directory path
children(tree, path) ==
    {q \in DOMAIN tree : Len(q.parts) > 0 /\ path_parent(q) = path}

\* path.iterdir(), consumed: [exc, ret]
iterdir(tree, path) ==
    IF ~path_exists(tree, path)
    THEN [exc |-> FileNotFoundError, ret |-> {}]
    ELSE IF ~path_is_dir(tree, path)
    THEN [exc |-> "NotADirectoryError", ret |-> {}]
    ELSE [exc |-> NoExc, ret |-> children(tree, path)]

\* path.glob(pattern) for a pattern without wildcards: the one entry of that
\* name when it exists, and nothing when path is not a directory
glob(tree, path, pattern) ==
    IF ~path_is_dir(tree, path) THEN {}
    ELSE {q \in {truediv(path, pattern)} : path_exists(tree, q)}

\* The characters of file names, in the order of their code points; str
\* compares code point by code point.
CodePointOrder == " -.0123456789ABCDEFGHIJKLMNOPQRSTUVWXYZ_abcdefghijklmnopqrstuvwxyz"

ord(c) == CHOOSE i \in 1..Len(CodePointOrder) : Char(CodePointOrder, i) = c

\* a < b of two str
RECURSIVE str_lt(_, _)
str_lt(a, b) ==
    IF b = "" THEN FALSE
    ELSE IF a = "" THEN TRUE
    ELSE IF Head(a) = Head(b) THEN str_lt(Tail(a), Tail(b))
    ELSE ord(Head(a)) < ord(Head(b))

\* sorted([f.stem for f in paths]): the stem at place i has fewer than i
\* stems before it, and at least i stems that are not after it
sorted_stems(paths) ==
    CHOOSE stems \in
        {[i \in 1..Cardinality(fs) |->
             CHOOSE stem \in {path_stem(f) : f \in fs} :
                 /\ Cardinality({f \in fs : str_lt(path_stem(f), stem)}) < i
                 /\ i <= Cardinality({f \in fs : ~str_lt(stem, path_stem(f))})]
         : fs \in {paths}} : TRUE

(***************************************************************************)
(* TardisDataManager: self is the record [root_dir, exchange, format]      *)
(***************************************************************************)
\* TardisDataManager.default_file_name: [exc, ret]
default_file_name(exchange, data_type, d, symbol, format) ==
    IF isinstance(d, "date")
    THEN [exc |-> NoExc,
          ret |-> exchange \o "/" \o data_type \o "/" \o strftime(d)
                  \o "/" \o symbol \o "." \o format \o ".gz"]
    ELSE [exc |-> AttributeError, ret |-> None]

\* In the definitions below a local name of the code is bound as
\* name \in {value}, so that its value is computed once, where it is
\* assigned.

\* TardisDataManager.get_path with a slip in it: the data type is left out
\* of the directory.
get_path_without_data_type(self, data_type, d, symbol) ==
    CHOOSE r \in
        {IF date_str.exc # NoExc
         THEN [exc |-> date_str.exc, ret |-> None]
         ELSE IF date_str.ret = None
         THEN [exc |-> NoExc, ret |-> path]
         ELSE IF symbol # <<>>
         THEN [exc |-> NoExc,
               ret |-> truediv(truediv(path, date_str.ret),
                               symbol[1] \o "." \o self.format \o ".gz")]
         ELSE [exc |-> NoExc, ret |-> truediv(path, date_str.ret)]
         : date_str \in {to_date_string(d)},
           path \in {truediv(self.root_dir, self.exchange)}} : TRUE

\* TardisDataManager.get_path: [exc, ret]
get_path(self, data_type, d, symbol) ==
    CHOOSE r \in
        {IF date_str.exc # NoExc
         THEN [exc |-> date_str.exc, ret |-> None]
         ELSE IF date_str.ret = None
         THEN [exc |-> NoExc, ret |-> path]
         ELSE IF symbol # <<>>
         THEN [exc |-> NoExc,
               ret |-> truediv(truediv(path, date_str.ret),
                               symbol[1] \o "." \o self.format \o ".gz")]
         ELSE [exc |-> NoExc, ret |-> truediv(path, date_str.ret)]
         : date_str \in {to_date_string(d)},
           path \in {truediv(truediv(self.root_dir, self.exchange), data_type)}} : TRUE

\* TardisDataManager.list_dates: [exc, ret]
list_dates(self, tree, data_type) ==
    CHOOSE r \in
        {CHOOSE q \in
             {IF entries.exc # NoExc
              THEN [exc |-> entries.exc, ret |-> None]
              ELSE [exc |-> NoExc,
                    ret |-> sorted_stems({f \in entries.ret : path_is_dir(tree, f)})]
              : entries \in {iterdir(tree, path)}} : TRUE
         : path \in {get_path(self, data_type, NoDate, <<>>).ret}} : TRUE

\* path = self.get_path(data_type, date) and the return of list_symbols
list_symbols_of_date(self, tree, data_type, d) ==
    CHOOSE r \in
        {IF path.exc # NoExc
         THEN [exc |-> path.exc, ret |-> None]
         ELSE [exc |-> NoExc,
               ret |-> sorted_stems(glob(tree, path.ret, "." \o self.format \o ".gz"))]
         : path \in {get_path(self, data_type, d, <<>>)}} : TRUE

\* TardisDataManager.list_symbols: [exc, ret]
list_symbols(self, tree, data_type, d) ==
    IF d.type # "NoneType"
    THEN list_symbols_of_date(self, tree, data_type, d)
    ELSE CHOOSE r \in
        {IF dates.exc # NoExc
         THEN [exc |-> dates.exc, ret |-> None]
         ELSE IF Len(dates.ret) = 0
         THEN [exc |-> IndexError, ret |-> None]
         ELSE list_symbols_of_date(self, tree, data_type,
                                   str(dates.ret[Len(dates.ret)]))
         : dates \in {list_dates(self, tree, data_type)}} : TRUE

\* TardisDataManager.__init__: the fields the resolver reads
TardisDataManager_init(root_dir, exchange, format) ==
    [root_dir |-> Path(root_dir), exchange |-> exchange, format |-> format]

\* Documents of the two metadata endpoints: the list of exchanges, and the
\* details of an exchange with its symbols.  The perpetual is still listed
\* and has no availableTo.
ExchangesDoc == "[{id:deribit},{id:bitmex}]"

DetailsDoc == "{id:deribit,availableSymbols:[BTC-PERPETUAL,BTC-29MAR19]}"

ValidationError == "ValidationError"

SYMBOL_TYPE == {"spot", "perpetual", "futures", "option", "combo"}

\* response.json() of a document: a list (a sequence) or a dict (a function
\* on its keys)
json_loads(doc) ==
    CASE doc = "{}" -> [kind |-> "dict", list |-> <<>>, dict |-> <<>>]
      [] doc = "{id:deribit}"
            -> [kind |-> "dict", list |-> <<>>, dict |-> [id |-> "deribit"]]
      [] doc = ExchangesDoc
            -> [kind |-> "list",
                list |-> <<[id |-> "deribit"], [id |-> "bitmex"]>>,
                dict |-> <<>>]
      [] doc = DetailsDoc
            -> [kind |-> "dict", list |-> <<>>,
                dict |-> [id |-> "deribit",
                          availableSymbols |->
                             <<[id |-> "BTC-PERPETUAL", type |-> "perpetual",
                                availableSince |-> "2019-03-30T00:00:00.000Z"],
                               [id |-> "BTC-29MAR19", type |-> "futures",
                                availableSince |-> "2019-03-30T00:00:00.000Z",
                                availableTo |-> "2019-03-30T00:00:00.000Z"]>>]]

\* SymbolInfo(**symbol): [exc, ret]
SymbolInfo(symbol) ==
    IF /\ {"id", "type", "availableSince", "availableTo"} \subseteq DOMAIN symbol
       /\ symbol.type \in SYMBOL_TYPE
    THEN [exc |-> NoExc, ret |-> symbol]
    ELSE [exc |-> ValidationError, ret |-> None]

\* [x for x in symbols if x.type in symbol_types]; symbol_types is <<>> for
\* None
of_types(symbols, symbol_types) ==
    IF symbol_types = <<>> THEN symbols
    ELSE LET wanted(symbol) == symbol.type \in symbol_types[1]
         IN  SelectSeq(symbols, wanted)

\* raw["availableSymbols"]: [exc, value]
availableSymbols(raw) ==
    IF raw.kind # "dict"
    THEN [exc |-> TypeError, value |-> <<>>]
    ELSE IF "availableSymbols" \notin DOMAIN raw.dict
    THEN [exc |-> KeyError, value |-> <<>>]
    ELSE [exc |-> NoExc, value |-> raw.dict.availableSymbols]

\* TardisDataManager.list_exchanges on what api.get_exchanges() returned:
\* [exc, ret].  Iterating a dict gives its keys, and a str key has no ["id"].
list_exchanges(raw_exchanges) ==
    IF raw_exchanges.kind = "list"
    THEN [exc |-> NoExc,
          ret |-> [i \in 1..Len(raw_exchanges.list) |-> raw_exchanges.list[i].id]]
    ELSE IF DOMAIN raw_exchanges.dict = {}
    THEN [exc |-> NoExc, ret |-> <<>>]
    ELSE [exc |-> TypeError, ret |-> None]

\* TardisDataManager.list_exchange_symbols on what
\* api.get_exchange_details(self.exchange) returned: [exc, ret]
list_exchange_symbols(raw_exchange_details, symbol_types) ==
    CHOOSE r \in
        {IF symbols.exc # NoExc
         THEN [exc |-> symbols.exc, ret |-> None]
         ELSE [exc |-> NoExc,
               ret |-> [i \in 1..Len(of_types(symbols.value, symbol_types))
                          |-> of_types(symbols.value, symbol_types)[i].id]]
         : symbols \in {availableSymbols(raw_exchange_details)}} : TRUE

\* TardisDataManager.list_exchange_symbol_infos: [exc, ret]
list_exchange_symbol_infos(raw_exchange_details, symbol_types) ==
    CHOOSE r \in
        {IF symbols.exc # NoExc
         THEN [exc |-> symbols.exc, ret |-> None]
         ELSE IF \E i \in 1..Len(symbols.value) :
                    SymbolInfo(symbols.value[i]).exc # NoExc
         THEN [exc |-> ValidationError, ret |-> None]
         ELSE [exc |-> NoExc, ret |-> of_types(symbols.value, symbol_types)]
         : symbols \in {availableSymbols(raw_exchange_details)}} : TRUE

(***************************************************************************)
(* Downloads.  tardis_dev is not part of the repository: its client is the *)
(* environment.  A call of it either raises, or writes for each work item  *)
(* the file download_dir/get_filename(exchange, data_type, day, symbol,    *)
(* format); which of the two is the choice outcomes[i] of the environment. *)
(***************************************************************************)
Outcomes == {"ok", "error"}

VendorError == "Exception"

\* what the client makes of from_date and to_date: [exc, value]
vendor_date(d) ==
    IF d.type = "str" THEN strptime(d.s, "%Y-%m-%d")
    ELSE IF isinstance(d, "date") THEN [exc |-> NoExc, value |-> d]
    ELSE [exc |-> TypeError, value |-> NoDate]

\* the days the client downloads: from_date and the days after it before
\* to_date (the NOTE in batch_download_by_date_range: inclusive left), and
\* from_date alone when to_date = from_date, as download_data calls it.
\* [exc, value]
vendor_days(from_date, to_date) ==
    CHOOSE r \in
        {IF first.exc # NoExc THEN [exc |-> first.exc, value |-> <<>>]
         ELSE IF last.exc # NoExc THEN [exc |-> last.exc, value |-> <<>>]
         ELSE CHOOSE q \in
             {[exc |-> NoExc,
               value |-> IF Len(series) <= 1 THEN <<first.value>>
                         ELSE SubSeq(series, 1, Len(series) - 1)]
              : series \in {pd_date_range(to_timestamp(first.value),
                                          to_timestamp(last.value))}} : TRUE
         : first \in {vendor_date(from_date)},
           last \in {vendor_date(to_date)}} : TRUE

\* the work items (data_type, date, symbol) in the order of the loops
\* `for symbol ... for data_type ... for date`
work_items(data_types, symbols, dates) ==
    [k \in 1..(Len(symbols) * Len(data_types) * Len(dates)) |->
        <<data_types[(((k - 1) \div Len(dates)) % Len(data_types)) + 1],
          dates[((k - 1) % Len(dates)) + 1],
          symbols[((k - 1) \div (Len(dates) * Len(data_types))) + 1]>>]

\* the directories above path
ancestors(path) ==
    {[root |-> path.root, parts |-> SubSeq(path.parts, 1, k)]
        : k \in 1..(Len(path.parts) - 1)}

\* the tree after the files of paths are written, their directories made
write_files(tree, paths) ==
    [p \in DOMAIN tree \cup paths \cup UNION {ancestors(q) : q \in paths} |->
        IF p \in paths THEN "file"
        ELSE IF p \in DOMAIN tree THEN tree[p] ELSE "dir"]

\* tardis_dev.datasets.download.download_async: [exc, disk]
download_async(tree, exchange, data_types, symbols, from_date, to_date, format, download_dir, outcomes) ==
    CHOOSE r \in
        {IF days.exc # NoExc THEN [exc |-> days.exc, disk |-> tree]
         ELSE CHOOSE q \in
             {[exc |-> IF \E i \in 1..Len(items) : outcomes[i] # "ok"
                       THEN VendorError ELSE NoExc,
               disk |-> CHOOSE written \in
                   {write_files(tree, paths) : paths \in
                       {{truediv(download_dir,
                                 default_file_name(exchange, items[i][1],
                                     items[i][2], items[i][3], format).ret)
                           : i \in {j \in 1..Len(items) : outcomes[j] = "ok"}}}}
                   : TRUE]
              : items \in {work_items(data_types, symbols, days.value)}} : TRUE
         : days \in {vendor_days(from_date, to_date)}} : TRUE

\* tardis_dev.datasets.download, whose format is "csv" when none is given
datasets_download(tree, exchange, data_types, symbols, from_date, to_date, download_dir, outcomes) ==
    download_async(tree, exchange, data_types, symbols, from_date, to_date,
                   "csv", download_dir, outcomes)

\* a call of the client, as the history keeps it
vendor_call(data_types, symbols, from_date, to_date) ==
    [data_types |-> data_types, symbols |-> symbols,
     from_date |-> from_date, to_date |-> to_date]

\* TardisDataManager.download_data with a slip in it: skip_existing is not
\* looked at.
download_data_no_skip(self, tree, data_type, d, symbol, skip_existing, outcome) ==
    CHOOSE r \in
        {IF target.exc # NoExc
         THEN [exc |-> NoExc, ret |-> FALSE, disk |-> tree, calls |-> <<>>]
         ELSE CHOOSE q \in
             {[exc |-> NoExc, ret |-> (got.exc = NoExc), disk |-> got.disk,
               calls |-> <<vendor_call(<<data_type>>, <<symbol>>, d, d)>>]
              : got \in {datasets_download(tree, self.exchange, <<data_type>>,
                             <<symbol>>, d, d, self.root_dir, <<outcome>>)}} : TRUE
         : target \in {get_path(self, data_type, d, <<symbol>>)}} : TRUE

\* TardisDataManager.download_data: [exc, ret, disk, calls].  get_path and
\* the client both run inside the try, whose except returns False.
download_data(self, tree, data_type, d, symbol, skip_existing, outcome) ==
    CHOOSE r \in
        {IF target.exc # NoExc
         THEN [exc |-> NoExc, ret |-> FALSE, disk |-> tree, calls |-> <<>>]
         ELSE IF skip_existing /\ path_exists(tree, target.ret)
         THEN [exc |-> NoExc, ret |-> TRUE, disk |-> tree, calls |-> <<>>]
         ELSE CHOOSE q \in
             {[exc |-> NoExc, ret |-> (got.exc = NoExc), disk |-> got.disk,
               calls |-> <<vendor_call(<<data_type>>, <<symbol>>, d, d)>>]
              : got \in {datasets_download(tree, self.exchange, <<data_type>>,
                             <<symbol>>, d, d, self.root_dir, <<outcome>>)}} : TRUE
         : target \in {get_path(self, data_type, d, <<symbol>>)}} : TRUE

\* the loops of the sequential branch from item i on: acc is
\* [results, disk, calls]
RECURSIVE download_each(_, _, _, _, _)
download_each(self, items, outcomes, i, acc) ==
    IF i > Len(items) THEN acc
    ELSE CHOOSE rest \in
        {CHOOSE r \in
            {download_each(self, items, outcomes, next, after)
             : next \in {i + 1},
               after \in {[results |-> dict_setitem(acc.results, item, one.ret),
                           disk |-> one.disk,
                           calls |-> acc.calls \o one.calls]}} : TRUE
         : item \in {items[i]},
           one \in {download_data(self, acc.disk, items[i][1], items[i][2],
                                  items[i][3], TRUE, outcomes[i])}} : TRUE

\* what batch_download_by_date_range returns: a dict or a bool
py_dict(items) == [type |-> "dict", items |-> items]

py_bool(value) == [type |-> "bool", value |-> value]

\* the non-sequential branch: one call of the client for everything, and
\* True or False for the whole of it
batch_async(self, tree, data_types, symbols, start_date, end_date, outcomes) ==
    CHOOSE r \in
        {[exc |-> NoExc,
          ret |-> py_bool(got.exc = NoExc),
          disk |-> got.disk,
          calls |-> <<vendor_call(data_types, symbols, start_date, end_date)>>]
         : got \in {download_async(tree, self.exchange, data_types, symbols,
                        start_date, end_date, self.format, self.root_dir,
                        outcomes)}} : TRUE

\* the sequential branch.  dates is [exc, ret] of
\* utils.date_range(start_date, end_date, inclusive="left"), which is called,
\* outside any try, once the two outer loops have something to go through.
batch_sequential(self, tree, data_types, symbols, dates, outcomes) ==
    IF Len(symbols) = 0 \/ Len(data_types) = 0
    THEN [exc |-> NoExc, ret |-> py_dict(dict_empty), disk |-> tree,
          calls |-> <<>>]
    ELSE IF dates.exc # NoExc
    THEN [exc |-> dates.exc, ret |-> None, disk |-> tree, calls |-> <<>>]
    ELSE CHOOSE q \in
        {[exc |-> NoExc, ret |-> py_dict(done.results),
          disk |-> done.disk, calls |-> done.calls]
         : done \in
             {download_each(self, items, outcomes, 1, acc)
              : items \in {work_items(data_types, symbols, dates.ret)},
                acc \in {[results |-> dict_empty, disk |-> tree,
                          calls |-> <<>>]}}} : TRUE

\* TardisDataManager.batch_download_by_date_range: [exc, ret, disk, calls];
\* dates as in batch_sequential
batch_download_by_date_range(self, tree, data_types, symbols, start_date, end_date, sequential, dates, outcomes) ==
    IF sequential
    THEN batch_sequential(self, tree, data_types, symbols, dates, outcomes)
    ELSE batch_async(self, tree, data_types, symbols, start_date, end_date,
                     outcomes)

\* the number of work items of a batch, each with an outcome of its own
work_count(data_types, symbols, start_date, end_date, sequential, dates) ==
    Len(symbols) * Len(data_types)
    * (IF sequential
       THEN (IF dates.exc = NoExc THEN Len(dates.ret) ELSE 0)
       ELSE Len(vendor_days(start_date, end_date).value))

\* TardisDataManager(): the defaults of the constructor
DefaultManager == TardisDataManager_init("./datasets", "deribit", "csv")

\* a file tree with nothing in it
NoTree == <<>>

(***************************************************************************)
(* The history lastSet: a set records the entry it stored under its        *)
(* fingerprint, an invalidate or a clear forgets it, an expiry does not.   *)
(***************************************************************************)
Remember(h, c, key) == dict_setitem(h, key, c[key])

\* The threads that share one TardisApi, and a thread that is in no call.
Threads == {"t1", "t2"}

IdleThread ==
    [name |-> "", url |-> "", pc |-> "idle", exc |-> NoExc, ret |-> None,
     entry |-> <<None, 0, 0>>, total_entries |-> 0, expired_entries |-> 0,
     current_time |-> 0, size |-> 0, todo |-> {}]

Forget(h, key) == [k \in DOMAIN h \ {key} |-> h[k]]

(***************************************************************************)
(* The state after construction: TardisApi(enable_cache, cache_ttl_seconds)*)
(***************************************************************************)
Init ==
    /\ enable_cache \in BOOLEAN
    /\ cache_ttl_seconds \in CtorTtls
    /\ has_cache = TardisApi_init_has_cache(enable_cache)
    /\ default_ttl = cache_ttl_seconds
    /\ cache = dict_empty
    /\ now = 0
    /\ op = [name |-> "__init__", url |-> "", args |-> <<>>]
    /\ ret = None
    /\ exc = NoExc
    /\ net = 0
    /\ before = 0
    /\ lastSet = dict_empty
    /\ manager = DefaultManager
    /\ disk = NoTree
    /\ downloads = <<>>
    /\ threads = [t \in Threads |-> IdleThread]

Called(name, url, args) ==
    /\ op' = [name |-> name, url |-> url, args |-> args]
    /\ before' = dict_len(cache)
    /\ UNCHANGED <<config, manager, disk, downloads, threads>>

\* what a call leaves behind: r is [exc, ret, cache]
Returned(r) ==
    /\ cache' = r.cache
    /\ ret' = r.ret
    /\ exc' = r.exc

\* time passes between two calls
Sleep ==
    /\ now < MaxTime
    /\ now' = now + 1
    /\ Called("time.sleep", "", <<>>)
    /\ ret' = None /\ exc' = NoExc /\ net' = 0
    /\ UNCHANGED <<cache, lastSet>>

\* api.cache.get(url)
CacheGet(url) ==
    /\ has_cache
    /\ Returned(SimpleCache_get(cache, url, now))
    /\ Called("SimpleCache.get", url, <<>>)
    /\ net' = 0
    /\ UNCHANGED <<now, lastSet>>

\* api.cache.set(url, data, ttl_seconds)
CacheSet(url, data, ttl_seconds) ==
    /\ has_cache
    /\ Returned(SimpleCache_set(cache, url, data, ttl_seconds, default_ttl, now))
    /\ lastSet' = Remember(lastSet, cache', _get_cache_key(url))
    /\ Called("SimpleCache.set", url, <<data, ttl_seconds>>)
    /\ net' = 0
    /\ UNCHANGED now

\* api.cache.clear()
CacheClear ==
    /\ has_cache
    /\ Returned(SimpleCache_clear(cache))
    /\ lastSet' = dict_empty
    /\ Called("SimpleCache.clear", "", <<>>)
    /\ net' = 0
    /\ UNCHANGED now

\* api.cache.get_stats()
CacheGetStats ==
    /\ has_cache
    /\ Returned(SimpleCache_get_stats(cache, now))
    /\ Called("SimpleCache.get_stats", "", <<>>)
    /\ net' = 0
    /\ UNCHANGED <<now, lastSet>>

\* a metadata call: r is [exc, ret, cache, net, now, stored]
ApiCall(name, url, r) ==
    /\ Returned(r)
    /\ net' = r.net
    /\ now' = r.now
    /\ lastSet' = IF r.stored
                  THEN Remember(lastSet, r.cache, _get_cache_key(url))
                  ELSE lastSet
    /\ Called(name, url, <<>>)

\* api.get_exchanges()
GetExchanges(resp, delay) ==
    /\ now + delay <= MaxTime
    /\ ApiCall("get_exchanges", exchanges_url,
               get_exchanges(cache, now, resp, delay))

\* api.get_exchange_details(exchange)
GetExchangeDetails(exchange, resp, delay) ==
    /\ now + delay <= MaxTime
    /\ ApiCall("get_exchange_details", exchange_details_url(exchange),
               get_exchange_details(cache, exchange, now, resp, delay))

\* the fingerprints of the entries of c that are not expired at time t
Live(c, t) == {k \in DOMAIN c : t - c[k][2] < c[k][3]}

\* api.clear_cache(); the history keeps the unexpired entries it found
ClearCache ==
    /\ Returned(clear_cache(cache))
    /\ lastSet' = IF cache_in_use THEN dict_empty ELSE lastSet
    /\ Called("clear_cache", "", <<Live(cache, now)>>)
    /\ net' = 0
    /\ UNCHANGED now

\* api.get_cache_stats()
GetCacheStats ==
    /\ Returned(get_cache_stats(cache, now))
    /\ Called("get_cache_stats", "", <<>>)
    /\ net' = 0
    /\ UNCHANGED <<now, lastSet>>

\* api.invalidate_cache_entry(url); the history keeps whether it found an
\* unexpired entry
InvalidateCacheEntry(url) ==
    /\ Returned(invalidate_cache_entry(cache, url))
    /\ lastSet' = IF cache_in_use
                  THEN Forget(lastSet, _get_cache_key(url))
                  ELSE lastSet
    /\ Called("invalidate_cache_entry", url,
              <<_get_cache_key(url) \in Live(cache, now)>>)
    /\ net' = 0
    /\ UNCHANGED now

\* api.is_cache_enabled()
IsCacheEnabled ==
    /\ ret' = is_cache_enabled
    /\ Called("is_cache_enabled", "", <<>>)
    /\ exc' = NoExc /\ net' = 0
    /\ UNCHANGED <<cache, now, lastSet>>

Next ==
    \/ Sleep
    \/ \E url \in Urls : CacheGet(url)
    \/ \E url \in Urls, data \in Payloads, ttl_seconds \in TtlArgs :
          CacheSet(url, data, ttl_seconds)
    \/ CacheClear
    \/ CacheGetStats
    \/ \E resp \in Responses, delay \in NetDelays : GetExchanges(resp, delay)
    \/ \E exchange \in Exchanges, resp \in Responses, delay \in NetDelays :
          GetExchangeDetails(exchange, resp, delay)
    \/ ClearCache
    \/ GetCacheStats
    \/ \E url \in Urls : InvalidateCacheEntry(url)
    \/ IsCacheEnabled

Spec == Init /\ [][Next]_vars

\* The same wrapper used with arbitrary request strings as keys.
NextKeys ==
    \/ Sleep
    \/ \E url \in Keys : CacheGet(url)
    \/ \E url \in Keys, data \in Payloads, ttl_seconds \in TtlArgs :
          CacheSet(url, data, ttl_seconds)
    \/ CacheClear
    \/ CacheGetStats
    \/ \E resp \in Responses, delay \in NetDelays : GetExchanges(resp, delay)
    \/ ClearCache
    \/ GetCacheStats
    \/ \E url \in Keys : InvalidateCacheEntry(url)
    \/ IsCacheEnabled

SpecKeys == Init /\ [][NextKeys]_vars

(***************************************************************************)
(* The metadata listings of the manager, which go through the wrapper.     *)
(***************************************************************************)
ExchangesResponses == {ExchangesDoc, RequestException}

DetailsResponses == {DetailsDoc, RequestException}

SymbolTypeArgs == {<<>>, <<{"perpetual"}>>, <<{"futures"}>>}

\* a listing: w is what the wrapper did, [exc, ret, cache, net, now, stored],
\* failed whether its request raised, and l what the listing made of w.ret.
\* The history keeps w.ret and failed.
Listed(name, url, w, failed, l) ==
    /\ cache' = w.cache
    /\ ret' = l.ret
    /\ exc' = l.exc
    /\ net' = w.net
    /\ now' = w.now
    /\ lastSet' = IF w.stored
                  THEN Remember(lastSet, w.cache, _get_cache_key(url))
                  ELSE lastSet
    /\ Called(name, url, <<w.ret, failed>>)

\* manager.list_exchanges()
ListExchanges(resp, delay) ==
    /\ now + delay <= MaxTime
    /\ \E w \in {get_exchanges(cache, now, resp, delay)} :
          Listed("list_exchanges", exchanges_url, w,
                 _call_api(cache, exchanges_url, now, resp, delay).exc # NoExc,
                 list_exchanges(json_loads(w.ret)))

\* manager.list_exchange_symbols(symbol_types)
ListExchangeSymbols(symbol_types, resp, delay) ==
    /\ now + delay <= MaxTime
    /\ \E w \in {get_exchange_details(cache, manager.exchange, now, resp, delay)} :
          Listed("list_exchange_symbols", exchange_details_url(manager.exchange), w,
                 _call_api(cache, exchange_details_url(manager.exchange),
                           now, resp, delay).exc # NoExc,
                 list_exchange_symbols(json_loads(w.ret), symbol_types))

\* manager.list_exchange_symbol_infos(symbol_types)
ListExchangeSymbolInfos(symbol_types, resp, delay) ==
    /\ now + delay <= MaxTime
    /\ \E w \in {get_exchange_details(cache, manager.exchange, now, resp, delay)} :
          Listed("list_exchange_symbol_infos",
                 exchange_details_url(manager.exchange), w,
                 _call_api(cache, exchange_details_url(manager.exchange),
                           now, resp, delay).exc # NoExc,
                 list_exchange_symbol_infos(json_loads(w.ret), symbol_types))

NextListings ==
    \/ Sleep
    \/ \E resp \in ExchangesResponses, delay \in NetDelays :
          ListExchanges(resp, delay)
    \/ \E symbol_types \in SymbolTypeArgs, resp \in DetailsResponses,
          delay \in NetDelays :
          ListExchangeSymbols(symbol_types, resp, delay)
    \/ \E symbol_types \in SymbolTypeArgs, resp \in DetailsResponses,
          delay \in NetDelays :
          ListExchangeSymbolInfos(symbol_types, resp, delay)
    \/ ClearCache

SpecListings == Init /\ [][NextListings]_vars

(***************************************************************************)
(* The date helpers and the resolver, called with values of these corpora. *)
(***************************************************************************)
EXCHANGE == {"deribit", "bitmex"}

DATA_TYPE == {"trades", "quotes"}

Symbols == {"BTC-PERPETUAL", "XBTUSD"}

Formats == {"csv", "parquet"}

\* date strings: the three accepted forms, their spellings without padding,
\* a day-first string and a day the calendar does not have
DateStrings ==
    {"2023-01-01", "2025-08-04", "20250804", "2025/08/04", "08-04-2025",
     "2025-8-4", "2025-02-30"}

Temporals ==
    {date(2023, 1, 1), date(2025, 8, 4), datetime(2025, 8, 4, 14, 30),
     Timestamp(2025, 8, 4, 0, 0)}

DateInputs == {str(s) : s \in DateStrings} \cup Temporals \cup {NoDate}

\* the day k days after v
RECURSIVE nth_day(_, _)
nth_day(v, k) == IF k = 0 THEN v ELSE nth_day(add_day(v), k - 1)

\* the bounds of a range: the days 2025-01-01 .. 2025-01-01 + MaxSpan as
\* strings, the last day of the year before, and temporal values
RangeDates ==
    {str(isoformat(nth_day(date(2025, 1, 1), k))) : k \in 0..MaxSpan}
    \cup {str("2024-12-31")}
    \cup {date(2025, 1, 1), datetime(2025, 1, 1, 14, 30),
          datetime(2025, 1, 5, 10, 0), NoDate}

Inclusives == valid_inclusive \cup {"all"}

\* what datetime.date.today() returns
Todays == {date(2025, 1, 3)}

Managers ==
    {TardisDataManager_init("/data", "deribit", "csv"),
     TardisDataManager_init("./datasets", "bitmex", "csv"),
     TardisDataManager_init("/data", "deribit", "parquet")}

\* a local tree under /data: two date directories, one of them empty, and a
\* plain file beside them
DataTree ==
    LET dirs == {"/data", "/data/deribit", "/data/deribit/trades",
                 "/data/deribit/trades/2023-01-01",
                 "/data/deribit/trades/2023-01-02"}
        files == {"/data/deribit/trades/README.md",
                  "/data/deribit/trades/2023-01-01/BTC-PERPETUAL.csv.gz"}
    IN  [p \in {Path(x) : x \in dirs \cup files}
           |-> IF p \in {Path(x) : x \in files} THEN "file" ELSE "dir"]

Trees == {NoTree, DataTree}

\* what a call of a helper or of the resolver leaves behind: r is [exc, ret]
Resolved(name, args, r) ==
    /\ op' = [name |-> name, url |-> "", args |-> args]
    /\ ret' = r.ret
    /\ exc' = r.exc
    /\ net' = 0
    /\ UNCHANGED <<config, cache, now, before, lastSet, manager, disk, downloads,
                   threads>>

\* to_date_string(d)
ToDateString(d) == Resolved("to_date_string", <<d>>, to_date_string(d))

\* parse_date(d)
ParseDate(d) == Resolved("parse_date", <<d>>, parse_date(d))

\* date_range(start_date, end_date, inclusive, to_str)
DateRange(start_date, end_date, inclusive, to_str, today) ==
    Resolved("date_range", <<start_date, end_date, inclusive, to_str, today>>,
             date_range(start_date, end_date, inclusive, to_str, today))

\* manager.get_path(data_type, d, symbol)
GetPath(data_type, d, symbol) ==
    Resolved("get_path", <<data_type, d, symbol>>,
             get_path(manager, data_type, d, symbol))

\* TardisDataManager.default_file_name(exchange, data_type, d, symbol, format)
DefaultFileName(exchange, data_type, d, symbol, format) ==
    Resolved("default_file_name", <<exchange, data_type, d, symbol, format>>,
             default_file_name(exchange, data_type, d, symbol, format))

\* manager.list_dates(data_type)
ListDates(data_type) ==
    Resolved("list_dates", <<data_type>>, list_dates(manager, disk, data_type))

\* manager.list_symbols(data_type, d)
ListSymbols(data_type, d) ==
    Resolved("list_symbols", <<data_type, d>>,
             list_symbols(manager, disk, data_type, d))

\* The helpers of date_utils, which read no state.
InitDates ==
    /\ Init
    /\ enable_cache
    /\ cache_ttl_seconds = LongTtl

NextDates ==
    \/ \E d \in DateInputs : ToDateString(d)
    \/ \E d \in DateInputs : ParseDate(d)
    \/ \E start_date \in RangeDates, end_date \in RangeDates,
          inclusive \in Inclusives, to_str \in BOOLEAN, today \in Todays :
          DateRange(start_date, end_date, inclusive, to_str, today)

SpecDates == InitDates /\ [][NextDates]_vars

\* TardisDataManager(root_dir, exchange, format) over a local tree.
InitResolver ==
    /\ enable_cache = TRUE
    /\ cache_ttl_seconds = LongTtl
    /\ has_cache = TardisApi_init_has_cache(enable_cache)
    /\ default_ttl = cache_ttl_seconds
    /\ cache = dict_empty
    /\ now = 0
    /\ op = [name |-> "__init__", url |-> "", args |-> <<>>]
    /\ ret = None
    /\ exc = NoExc
    /\ net = 0
    /\ before = 0
    /\ lastSet = dict_empty
    /\ manager \in Managers
    /\ disk \in Trees
    /\ downloads = <<>>
    /\ threads = [t \in Threads |-> IdleThread]

NextResolver ==
    \/ \E data_type \in DATA_TYPE, d \in DateInputs,
          symbol \in {<<>>} \cup {<<s>> : s \in Symbols} :
          GetPath(data_type, d, symbol)
    \/ \E e \in EXCHANGE, data_type \in DATA_TYPE, d \in DateInputs,
          symbol \in Symbols, fmt \in Formats :
          DefaultFileName(e, data_type, d, symbol, fmt)
    \/ \E data_type \in DATA_TYPE : ListDates(data_type)
    \/ \E data_type \in DATA_TYPE, d \in DateInputs : ListSymbols(data_type, d)

SpecResolver == InitResolver /\ [][NextResolver]_vars

(***************************************************************************)
(* Downloads into a local tree.                                            *)
(***************************************************************************)
\* the dates download_data is called with: a day, a day-first string, and a
\* Timestamp as date_range hands it on
DownloadDates ==
    {str("2023-01-01"), str("08-04-2025"), Timestamp(2023, 1, 1, 0, 0)}

BatchDataTypes == {<<"trades">>}

BatchSymbols == {<<"BTC-PERPETUAL">>, <<"BTC-PERPETUAL", "XBTUSD">>}

\* start_date and end_date of a batch: two days, the bounds in the wrong
\* order, and nothing
BatchRanges ==
    {<<str("2023-01-01"), str("2023-01-03")>>,
     <<str("2023-01-02"), str("2023-01-01")>>,
     <<str("2023-01-01"), str("2023-01-01")>>}

\* what a download leaves behind: r is [exc, ret, disk, calls]
Downloaded(name, args, r) ==
    /\ op' = [name |-> name, url |-> "", args |-> args]
    /\ ret' = r.ret
    /\ exc' = r.exc
    /\ disk' = r.disk
    /\ downloads' = r.calls
    /\ net' = Len(r.calls)
    /\ UNCHANGED <<config, cache, now, before, lastSet, manager, threads>>

\* manager.download_data(data_type, d, symbol, skip_existing)
DownloadData(data_type, d, symbol, skip_existing, outcome) ==
    \E r \in {download_data(manager, disk, data_type, d, symbol,
                            skip_existing, outcome)} :
        Downloaded("download_data",
                   <<data_type, d, symbol, skip_existing, outcome>>, r)

\* manager.batch_download_by_date_range(data_types, symbols, None,
\*                                      start_date, end_date, sequential)
BatchDownload(data_types, symbols, start_date, end_date, sequential, today) ==
    \E dates \in {date_range(start_date, end_date, "left", FALSE, today)} :
        \E outcomes \in [1..work_count(data_types, symbols, start_date,
                                       end_date, sequential, dates)
                           -> Outcomes] :
            \E r \in {batch_download_by_date_range(manager, disk, data_types,
                          symbols, start_date, end_date, sequential, dates,
                          outcomes)} :
                Downloaded("batch_download_by_date_range",
                           <<data_types, symbols, start_date, end_date,
                             sequential, outcomes>>, r)

InitDownload ==
    /\ InitResolver
    /\ manager = TardisDataManager_init("/data", "deribit", "csv")

NextDownload ==
    \/ \E data_type \in {"trades"}, d \in DownloadDates, symbol \in Symbols,
          skip_existing \in BOOLEAN, outcome \in Outcomes :
          DownloadData(data_type, d, symbol, skip_existing, outcome)
    \/ \E data_types \in BatchDataTypes, symbols \in BatchSymbols,
          range \in BatchRanges, sequential \in BOOLEAN, today \in Todays :
          BatchDownload(data_types, symbols, range[1], range[2], sequential,
                        today)

SpecDownload == InitDownload /\ [][NextDownload]_vars

(***************************************************************************)
(* Two threads on one SimpleCache.  The code takes no lock, so a thread    *)
(* switch can fall between any two accesses of self.cache; each access is  *)
(* one step.  pc names the access a thread makes next.                     *)
(***************************************************************************)
RuntimeError == "RuntimeError"

\* the calls a thread makes, with the first access of each
ThreadOps ==
    [get |-> "get:in", invalidate_cache_entry |-> "invalidate:in",
     clear |-> "clear", get_stats |-> "stats:len"]

\* the dicts the threads start on: both urls stored at time 0, each with the
\* short ttl or with the default
ThreadCaches ==
    {SimpleCache_set(
         SimpleCache_set(dict_empty, exchanges_url, "{}", a, LongTtl, 0).cache,
         exchange_details_url("deribit"), "{id:deribit}", b, LongTtl, 0).cache
        : a \in {<<>>, <<ShortTtl>>}, b \in {<<>>, <<ShortTtl>>}}

\* thread t goes on as th and leaves the dict as c
ThreadStep(t, th, c) ==
    /\ threads' = [threads EXCEPT ![t] = th]
    /\ cache' = c
    /\ UNCHANGED <<config, now, op, ret, exc, net, before, lastSet, manager,
                   disk, downloads>>

\* the return, or the raise, that ends the call of th
Return(th, value) == [th EXCEPT !.pc = "done", !.ret = value]

Raise(th, e) == [th EXCEPT !.pc = "done", !.exc = e]

\* thread t calls name(url)
Begin(t, name, url) ==
    /\ threads[t].pc = "idle"
    /\ ThreadStep(t, [threads[t] EXCEPT !.name = name, !.url = url,
                                         !.pc = ThreadOps[name]], cache)

\* SimpleCache.get, `if key in self.cache:`
GetTest(t) ==
    /\ threads[t].pc = "get:in"
    /\ ThreadStep(t, IF _get_cache_key(threads[t].url) \in DOMAIN cache
                     THEN [threads[t] EXCEPT !.pc = "get:read"]
                     ELSE Return(threads[t], None), cache)

\* SimpleCache.get, `data, timestamp, ttl = self.cache[key]` and the test
\* of the ttl, which reads no shared state
GetRead(t) ==
    /\ threads[t].pc = "get:read"
    /\ \E r \in {dict_getitem(cache, _get_cache_key(threads[t].url))} :
          ThreadStep(t, IF r.exc # NoExc THEN Raise(threads[t], r.exc)
                        ELSE IF now - r.value[2] < r.value[3]
                        THEN Return([threads[t] EXCEPT !.entry = r.value], r.value[1])
                        ELSE [threads[t] EXCEPT !.entry = r.value, !.pc = "get:del"],
                     cache)

\* SimpleCache.get, `del self.cache[key]` and `return None`
GetDelete(t) ==
    /\ threads[t].pc = "get:del"
    /\ \E r \in {dict_delitem(cache, _get_cache_key(threads[t].url))} :
          ThreadStep(t, IF r.exc # NoExc THEN Raise(threads[t], r.exc)
                        ELSE Return(threads[t], None), r.dict)

\* TardisApi.invalidate_cache_entry, `if key in self.cache.cache:`
InvalidateTest(t) ==
    /\ threads[t].pc = "invalidate:in"
    /\ ThreadStep(t, IF cache_in_use /\ _get_cache_key(threads[t].url) \in DOMAIN cache
                     THEN [threads[t] EXCEPT !.pc = "invalidate:del"]
                     ELSE Return(threads[t], FALSE), cache)

\* TardisApi.invalidate_cache_entry, `del self.cache.cache[key]`
InvalidateDelete(t) ==
    /\ threads[t].pc = "invalidate:del"
    /\ \E r \in {dict_delitem(cache, _get_cache_key(threads[t].url))} :
          ThreadStep(t, IF r.exc # NoExc THEN Raise(threads[t], r.exc)
                        ELSE Return(threads[t], TRUE), r.dict)

\* SimpleCache.clear, `self.cache.clear()`
ThreadClear(t) ==
    /\ threads[t].pc = "clear"
    /\ ThreadStep(t, Return(threads[t], None), SimpleCache_clear(cache).cache)

\* SimpleCache.get_stats, `total_entries = len(self.cache)` and
\* `current_time = time.time()`
StatsLen(t) ==
    /\ threads[t].pc = "stats:len"
    /\ ThreadStep(t, [threads[t] EXCEPT !.total_entries = dict_len(cache),
                                         !.expired_entries = 0,
                                         !.current_time = now,
                                         !.pc = "stats:iter"], cache)

\* SimpleCache.get_stats, `self.cache.items()` and the iterator of the for
\* loop, which remembers the size of the dict
StatsIter(t) ==
    /\ threads[t].pc = "stats:iter"
    /\ ThreadStep(t, [threads[t] EXCEPT !.size = dict_len(cache),
                                         !.todo = DOMAIN cache,
                                         !.pc = "stats:next"], cache)

\* SimpleCache.get_stats, one round of the for loop: the iterator raises
\* when the size of the dict is no longer what it was, ends the loop when
\* nothing is left, and otherwise hands out an entry, which is counted
StatsNext(t) ==
    /\ threads[t].pc = "stats:next"
    /\ IF dict_len(cache) # threads[t].size
       THEN ThreadStep(t, Raise(threads[t], RuntimeError), cache)
       ELSE IF threads[t].todo = {}
       THEN ThreadStep(t, Return(threads[t],
                [total_entries |-> threads[t].total_entries,
                 expired_entries |-> threads[t].expired_entries,
                 active_entries |-> threads[t].total_entries
                                    - threads[t].expired_entries]), cache)
       ELSE \E key \in threads[t].todo :
               ThreadStep(t, [threads[t] EXCEPT
                    !.todo = @ \ {key},
                    !.expired_entries =
                        IF threads[t].current_time - cache[key][2] >= cache[key][3]
                        THEN @ + 1 ELSE @], cache)

InitThreads ==
    /\ enable_cache = TRUE
    /\ cache_ttl_seconds = LongTtl
    /\ has_cache = TardisApi_init_has_cache(enable_cache)
    /\ default_ttl = cache_ttl_seconds
    /\ cache \in ThreadCaches
    /\ now \in 0..MaxTime
    /\ op = [name |-> "__init__", url |-> "", args |-> <<>>]
    /\ ret = None
    /\ exc = NoExc
    /\ net = 0
    /\ before = 0
    /\ lastSet = dict_empty
    /\ manager = DefaultManager
    /\ disk = NoTree
    /\ downloads = <<>>
    /\ threads = [t \in Threads |-> IdleThread]

NextThreads ==
    \E t \in Threads :
        \/ \E name \in DOMAIN ThreadOps, url \in Urls : Begin(t, name, url)
        \/ GetTest(t)
        \/ GetRead(t)
        \/ GetDelete(t)
        \/ InvalidateTest(t)
        \/ InvalidateDelete(t)
        \/ ThreadClear(t)
        \/ StatsLen(t)
        \/ StatsIter(t)
        \/ StatsNext(t)

SpecThreads == InitThreads /\ [][NextThreads]_vars

(***************************************************************************)
(* Properties                                                              *)
(***************************************************************************)
\* every request string of the two corpora
Strings == Urls \cup Keys

\* the entry a get(url) looks at: <<entry>>, or <<>> when there is none
EntryFor(c, url) ==
    IF _get_cache_key(url) \in DOMAIN c THEN <<c[_get_cache_key(url)]>> ELSE <<>>

\* C1: TTL correctness.  After set(k, v) at time t with effective ttl > 0
\* (the per-call ttl_seconds when given, otherwise default_ttl) and no later
\* set, invalidate or clear on the entry of k, a get(k) at a time before
\* t + ttl returns exactly v, and a get(k) at t + ttl or later returns None.
C1_TtlCorrectness ==
    op.name = "SimpleCache.get" =>
        LET key == _get_cache_key(op.url) IN
        (key \in DOMAIN lastSet /\ lastSet[key][3] > 0) =>
            ret = IF now < lastSet[key][2] + lastSet[key][3]
                  THEN lastSet[key][1]
                  ELSE None

\* a value set with a positive ttl is read back at a later instant of its
\* validity window
C1_Witness ==
    /\ op.name = "SimpleCache.get"
    /\ _get_cache_key(op.url) \in DOMAIN lastSet
    /\ LET e == lastSet[_get_cache_key(op.url)] IN
       /\ e[3] > 0
       /\ e[2] < now /\ now < e[2] + e[3]
       /\ ret = e[1]

\* C2 as stated: for any two distinct request strings k1 # k2, no set, get
\* or invalidate on k1 changes the payload, timestamp or presence of the
\* entry that get(k2) observes.
C2_DistinctStringsIsolated ==
    [][\A k1 \in Strings, k2 \in Strings :
          ( /\ k1 # k2
            /\ op'.name \in {"SimpleCache.set", "SimpleCache.get",
                             "invalidate_cache_entry"}
            /\ op'.url = k1 )
          => EntryFor(cache', k2) = EntryFor(cache, k2)]_vars

\* C2: Key isolation.  For any two request strings k1, k2 whose fingerprints
\* differ, no set, get (including its expiry deletion) or invalidate on k1
\* changes the payload, timestamp or presence of the entry get(k2) observes.
C2_KeyIsolation ==
    [][\A k1 \in Strings, k2 \in Strings :
          ( /\ _get_cache_key(k1) # _get_cache_key(k2)
            /\ op'.name \in {"SimpleCache.set", "SimpleCache.get",
                             "invalidate_cache_entry"}
            /\ op'.url = k1 )
          => EntryFor(cache', k2) = EntryFor(cache, k2)]_vars

\* a get removed the expired entry of its key while the entry of another
\* fingerprint stayed in the dict
C2_Witness ==
    /\ op.name = "SimpleCache.get"
    /\ ret = None
    /\ before = 2
    /\ dict_len(cache) = 1
    /\ _get_cache_key(op.url) \notin DOMAIN cache

\* C3: Lazy expiry on read.  A get(k) that finds an entry for k with
\* now - stored_at >= ttl removes that entry and returns None: right after
\* it the dict holds no entry for k and one entry fewer than before.
C3_LazyExpiryOnRead ==
    [][op'.name = "SimpleCache.get" =>
          LET key == _get_cache_key(op'.url) IN
          (key \in DOMAIN cache /\ now - cache[key][2] >= cache[key][3]) =>
              /\ ret' = None
              /\ exc' = NoExc
              /\ key \notin DOMAIN cache'
              /\ dict_len(cache') = dict_len(cache) - 1]_vars

\* a get found its entry expired: the entry is gone and the count fell by one
C3_Witness ==
    /\ op.name = "SimpleCache.get"
    /\ _get_cache_key(op.url) \in DOMAIN lastSet
    /\ now - lastSet[_get_cache_key(op.url)][2] >= lastSet[_get_cache_key(op.url)][3]
    /\ _get_cache_key(op.url) \notin DOMAIN cache
    /\ dict_len(cache) = before - 1
    /\ ret = None

\* the ttl a set(url, data, ttl_seconds) is to record
EffectiveTtl(ttl_seconds) ==
    IF ttl_seconds # <<>> THEN ttl_seconds[1] ELSE default_ttl

\* C4: Last-write-wins overwrite.  set(k, v2) on a key that already has an
\* entry, expired or not, replaces it by payload v2 with stored_at = now and
\* the ttl of this call: the dict has the same keys as before, and a get(k)
\* that follows returns v2 while the time is before now + ttl and None
\* afterwards, never the old payload.
C4_LastWriteWins ==
    [][op'.name = "SimpleCache.set" =>
          LET key == _get_cache_key(op'.url)
              v2 == op'.args[1]
              ttl == EffectiveTtl(op'.args[2])
          IN  key \in DOMAIN cache =>
                /\ DOMAIN cache' = DOMAIN cache
                /\ cache'[key] = <<v2, now, ttl>>
                /\ \A later \in now .. now + LongTtl + 1 :
                      SimpleCache_get(cache', op'.url, later).ret
                        = IF later < now + ttl THEN v2 ELSE None]_vars

\* a set at a later instant on a key that already had an entry
C4_Witness ==
    /\ op.name = "SimpleCache.set"
    /\ before = dict_len(cache)
    /\ now > 0
    /\ cache[_get_cache_key(op.url)] = <<op.args[1], now, EffectiveTtl(op.args[2])>>

\* a clear of the dict: SimpleCache.clear, or clear_cache of an enabled wrapper
IsClear(o) ==
    \/ o.name = "SimpleCache.clear"
    \/ o.name = "clear_cache" /\ cache_in_use

\* C5: Clear removes everything and is idempotent.  After clear() the stats
\* report total_entries = 0 and every get returns None, and a second clear()
\* leaves the same empty dict.
C5_ClearIdempotent ==
    [][IsClear(op') =>
          /\ exc' = NoExc
          /\ SimpleCache_get_stats(cache', now').ret.total_entries = 0
          /\ \A url \in Strings, later \in now' .. MaxTime :
                SimpleCache_get(cache', url, later).ret = None
          /\ SimpleCache_clear(cache').cache = cache'
          /\ IsClear(op) => cache' = cache]_vars

\* clear_cache emptied a dict that held two entries
C5_Witness ==
    /\ op.name = "clear_cache"
    /\ cache_in_use
    /\ before = 2
    /\ dict_len(cache) = 0

\* C6: Invalidate of one key.  On an enabled cache invalidate_cache_entry(url)
\* removes the entry for url and returns true when one is in the dict,
\* returns false and changes nothing when none is, and leaves every other
\* entry as it was.
C6_InvalidateOneKey ==
    [][(op'.name = "invalidate_cache_entry" /\ cache_in_use) =>
          LET key == _get_cache_key(op'.url) IN
          /\ exc' = NoExc
          /\ IF key \in DOMAIN cache
             THEN ret' = TRUE /\ DOMAIN cache' = DOMAIN cache \ {key}
             ELSE ret' = FALSE /\ cache' = cache
          /\ \A k \in DOMAIN cache \ {key} :
                k \in DOMAIN cache' /\ cache'[k] = cache[k]]_vars

\* an invalidate removed one of two entries and returned true
C6_Witness ==
    /\ op.name = "invalidate_cache_entry"
    /\ cache_in_use
    /\ ret = TRUE
    /\ before = 2
    /\ dict_len(cache) = 1

\* the fingerprints whose get, at time t, reports None
AbsentForGet(c, t) ==
    {key \in DOMAIN c :
        \E url \in Strings :
            _get_cache_key(url) = key /\ SimpleCache_get(c, url, t).ret = None}

\* C7: Stats agree with get.  In every reachable state get_stats at time now
\* reports total_entries = the number of entries of the dict, expired_entries
\* = the number of entries for which a get at the same time reports None, and
\* active_entries = total_entries - expired_entries >= 0.
C7_StatsAgreeWithGet ==
    has_cache =>
        LET s == SimpleCache_get_stats(cache, now).ret IN
        /\ s.total_entries = Cardinality(DOMAIN cache)
        /\ s.expired_entries = Cardinality(AbsentForGet(cache, now))
        /\ s.active_entries = s.total_entries - s.expired_entries
        /\ s.active_entries >= 0
        /\ op.name \in {"SimpleCache.get_stats", "get_cache_stats"} => ret = s

\* get_cache_stats counted one expired and one active entry
C7_Witness ==
    /\ op.name = "get_cache_stats"
    /\ cache_in_use
    /\ ret.total_entries = 2
    /\ ret.expired_entries = 1
    /\ ret.active_entries = 1

\* C8: Stats is a pure read.  get_stats never adds, removes or changes an
\* entry, even when it counts entries as expired.
C8_StatsPureRead ==
    [][op'.name \in {"SimpleCache.get_stats", "get_cache_stats"} =>
          cache' = cache]_vars

\* get_stats counted an expired entry, and the entry is still in the dict
C8_Witness ==
    /\ op.name = "SimpleCache.get_stats"
    /\ ret.expired_entries >= 1
    /\ dict_len(cache) = ret.total_entries
    /\ dict_len(cache) = before

\* what holds of a wrapper built with enable_cache = False
DisabledInert ==
    /\ ~has_cache
    /\ cache = dict_empty
    /\ exc = NoExc
    /\ op.name \in {"get_exchanges", "get_exchange_details"} => net = 1
    /\ op.name = "invalidate_cache_entry" => ret = FALSE
    /\ op.name = "get_cache_stats" => ret = DisabledStats
    /\ op.name = "is_cache_enabled" => ret = FALSE

\* C9: Disabled cache is an inert no-op.  For a wrapper built with
\* enable_cache = False there is no cache object and nothing is ever stored,
\* every metadata call issues a network request, clear_cache changes nothing,
\* invalidate_cache_entry returns false, get_cache_stats returns the disabled
\* sentinel, and is_cache_enabled stays false.
C9_DisabledInert ==
    [][~enable_cache => (DisabledInert /\ DisabledInert' /\ ~enable_cache')]_vars

\* a disabled wrapper answered a metadata call from the network
C9_Witness ==
    /\ ~enable_cache
    /\ op.name = "get_exchange_details"
    /\ net = 1
    /\ ret = "{id:deribit}"
    /\ now = MaxTime

\* a result of the shape the call's signature promises
WellFormed(o, r) ==
    CASE o.name = "SimpleCache.get" -> r \in Payloads \cup {None}
      [] o.name \in {"SimpleCache.set", "SimpleCache.clear", "clear_cache",
                     "time.sleep", "__init__"} -> r = None
      [] o.name = "SimpleCache.get_stats" \/ (o.name = "get_cache_stats" /\ cache_in_use)
            -> /\ DOMAIN r = {"total_entries", "expired_entries", "active_entries"}
               /\ \A f \in DOMAIN r : r[f] \in Nat
      [] o.name = "get_cache_stats" /\ ~cache_in_use -> r = DisabledStats
      [] o.name \in {"invalidate_cache_entry", "is_cache_enabled"} -> r \in BOOLEAN
      [] o.name \in {"get_exchanges", "get_exchange_details"} -> r \in Payloads

\* C10: Cache operations never fail the caller.  In a single-threaded run
\* every get, set, clear, invalidate and stats call, on an enabled or a
\* disabled wrapper, for every key and every ttl, raises nothing and returns
\* a result of its declared shape.
C10_NeverRaises ==
    /\ exc = NoExc
    /\ WellFormed(op, ret)

\* invalidate_cache_entry ran its del while an entry stored with a negative
\* ttl was in the dict, and returned normally
C10_Witness ==
    /\ op.name = "invalidate_cache_entry"
    /\ exc = NoExc
    /\ ret = TRUE
    /\ \E k \in DOMAIN cache : cache[k][3] < 0

\* the metadata calls of the wrapper, each one _call_api under a handler
ApiCalls == {"get_exchanges", "get_exchange_details"}

\* the cache holds an unexpired entry for url at time t
Hit(c, url, t) ==
    /\ _get_cache_key(url) \in DOMAIN c
    /\ t - c[_get_cache_key(url)][2] < c[_get_cache_key(url)][3]

\* C11: Cache-before-network.  With caching enabled, a metadata call issues
\* a network request if and only if the cache holds no unexpired entry for
\* its url when it starts.  On a hit it returns the stored document, empty
\* or not, changes nothing and issues no request.  On a miss it issues
\* exactly one request and, for every document the endpoint answers with,
\* stores it under the url with the wrapper's ttl and returns it.
C11_CacheBeforeNetwork ==
    [][(op'.name \in ApiCalls /\ cache_in_use) =>
          LET url == op'.url
              key == _get_cache_key(url)
          IN  /\ net' \in {0, 1}
              /\ (net' = 0) <=> Hit(cache, url, now)
              /\ Hit(cache, url, now) =>
                    /\ ret' = cache[key][1]
                    /\ cache' = cache
                    /\ now' = now
              /\ ~Hit(cache, url, now) =>
                    /\ key \in DOMAIN cache' =>
                          cache'[key] = <<ret', now', cache_ttl_seconds>>
                    /\ \A resp \in Payloads, delay \in NetDelays :
                          LET r == _call_api(cache, url, now, resp, delay) IN
                          /\ r.exc = NoExc
                          /\ r.net = 1
                          /\ r.ret = resp
                          /\ key \in DOMAIN r.cache
                          /\ r.cache[key] = <<resp, now + delay, cache_ttl_seconds>>]_vars

\* the empty document, stored earlier, is served from the cache without a
\* request
C11_Witness ==
    /\ op.name = "get_exchanges"
    /\ cache_in_use
    /\ net = 0
    /\ ret = "{}"
    /\ Hit(cache, op.url, now)
    /\ cache[_get_cache_key(op.url)][1] = "{}"
    /\ cache[_get_cache_key(op.url)][2] < now

\* C12: Upstream errors become an empty sentinel.  Whenever the request or
\* the status check of get_exchanges or get_exchange_details fails, the call
\* returns {} and raises nothing: no metadata call ever leaves an exception,
\* and in every reachable state a call whose request fails returns {}.
C12_UpstreamErrorsBecomeEmpty ==
    /\ op.name \in ApiCalls =>
          /\ exc = NoExc
          /\ (cache_in_use /\ net = 1 /\ _get_cache_key(op.url) \notin DOMAIN cache)
                => ret = "{}"
    /\ \A delay \in NetDelays :
          LET failed == {get_exchanges(cache, now, RequestException, delay)} \cup
                        {get_exchange_details(cache, e, now, RequestException, delay) :
                            e \in Exchanges}
          IN  \A r \in failed :
                 /\ r.exc = NoExc
                 /\ r.net = 1 => r.ret = "{}"

\* a request of get_exchange_details failed (it was issued and nothing was
\* stored), and the caller got {}
C12_Witness ==
    /\ op.name = "get_exchange_details"
    /\ cache_in_use
    /\ net = 1
    /\ _get_cache_key(op.url) \notin DOMAIN cache
    /\ before = 1
    /\ ret = "{}"
    /\ exc = NoExc

(***************************************************************************)
(* The calendar, for stating what a date argument denotes.                 *)
(***************************************************************************)
DateFormats == {"%Y-%m-%d", "%Y%m%d", "%Y/%m/%d"}

\* d is a date, a datetime or a Timestamp, or a string one of the formats
\* reads as a day of the calendar
DenotesDay(d) ==
    \/ d.type \in {"date", "datetime", "Timestamp"}
    \/ d.type = "str" /\ \E fmt \in DateFormats : strptime(d.s, fmt).exc = NoExc

\* the day of the calendar d denotes, as a plain date
CalendarDate(d) ==
    IF d.type = "str"
    THEN date_of(strptime(d.s, CHOOSE fmt \in DateFormats :
                                   strptime(d.s, fmt).exc = NoExc).value)
    ELSE date_of(d)

\* its YYYY-MM-DD form
Canonical(d) ==
    zfill(str_of(CalendarDate(d).year), 4) \o "-"
    \o zfill(str_of(CalendarDate(d).month), 2) \o "-"
    \o zfill(str_of(CalendarDate(d).day), 2)

\* the number of the day in the proleptic Gregorian calendar
Ordinal(v) ==
    LET y == v.year - 1
        before_month == [m \in 1..12 |->
            IF m = 1 THEN 0
            ELSE LET lens == [k \in 1..(m - 1) |-> days_in_month(v.year, k)]
                 IN  lens[1]
                     + (IF m > 2 THEN lens[2] ELSE 0) + (IF m > 3 THEN lens[3] ELSE 0)
                     + (IF m > 4 THEN lens[4] ELSE 0) + (IF m > 5 THEN lens[5] ELSE 0)
                     + (IF m > 6 THEN lens[6] ELSE 0) + (IF m > 7 THEN lens[7] ELSE 0)
                     + (IF m > 8 THEN lens[8] ELSE 0) + (IF m > 9 THEN lens[9] ELSE 0)
                     + (IF m > 10 THEN lens[10] ELSE 0)
                     + (IF m > 11 THEN lens[11] ELSE 0)]
    IN  365 * y + (y \div 4) - (y \div 100) + (y \div 400)
        + before_month[v.month] + v.day

\* the directory of an exchange and a data type under the root, as a string
DataTypeDir(self, data_type) ==
    path_str(self.root_dir) \o "/" \o self.exchange \o "/" \o data_type

\* C13 as stated: Incremental path layout.  get_path returns
\* root/exchange/data_type when the date is omitted, root/exchange/data_type/
\* DATE when the date is given and the symbol omitted, and root/exchange/
\* data_type/DATE/symbol.format.gz when both are given, DATE being the
\* YYYY-MM-DD form of the date.
C13_IncrementalPathLayout ==
    op.name = "get_path" =>
        LET data_type == op.args[1]
            d == op.args[2]
            symbol == op.args[3]
            dir == DataTypeDir(manager, data_type)
        IN  /\ d = NoDate => (exc = NoExc /\ path_str(ret) = dir)
            /\ (d # NoDate /\ DenotesDay(d)) =>
                  /\ exc = NoExc
                  /\ path_str(ret) =
                        IF symbol = <<>>
                        THEN dir \o "/" \o Canonical(d)
                        ELSE dir \o "/" \o Canonical(d) \o "/" \o symbol[1]
                                 \o "." \o manager.format \o ".gz"

Roots == {"/data", "./datasets"}

\* the managers that differ from self in root, exchange or format only
OtherManagers(self) ==
    {TardisDataManager_init(r, e, f) : r \in Roots, e \in EXCHANGE, f \in Formats}

\* C14: Path determinism and injectivity.  The path of full coordinates is
\* the value of get_path on (root, exchange, data_type, date, symbol,
\* format) alone, and the path of any other full coordinates that differ in
\* exchange, data type, calendar date, symbol or format is a different one.
C14_PathInjective ==
    (op.name = "get_path" /\ exc = NoExc /\ op.args[2] # NoDate /\ op.args[3] # <<>>) =>
        /\ ret = get_path(manager, op.args[1], op.args[2], op.args[3]).ret
        /\ \A other \in OtherManagers(manager), data_type \in DATA_TYPE,
              d \in DateInputs, symbol \in Symbols :
              ( /\ DenotesDay(d)
                /\ \/ other.exchange # manager.exchange
                   \/ other.format # manager.format
                   \/ data_type # op.args[1]
                   \/ CalendarDate(d) # CalendarDate(op.args[2])
                   \/ symbol # op.args[3][1] )
              => path_str(get_path(other, data_type, d, <<symbol>>).ret) # path_str(ret)

\* the path of the end-to-end scenario has been computed
C14_Witness ==
    /\ op.name = "get_path"
    /\ exc = NoExc
    /\ op.args = <<"trades", str("2023-01-01"), <<"BTC-PERPETUAL">> >>
    /\ path_str(ret) = "/data/deribit/trades/2023-01-01/BTC-PERPETUAL.csv.gz"

\* a string in one of the three forms: YYYY-MM-DD, YYYYMMDD or YYYY/MM/DD
HasDateForm(s) ==
    LET digits(ps) == \A i \in ps : IsDigit(Char(s, i))
    IN  \/ Len(s) = 8 /\ digits(1..8)
        \/ /\ Len(s) = 10
           /\ digits({1, 2, 3, 4, 6, 7, 9, 10})
           /\ Char(s, 5) = Char(s, 8)
           /\ Char(s, 5) \in {"-", "/"}

\* C15 as stated: Date string normalization.  For every string that
\* to_date_string accepts the result is the zero-padded YYYY-MM-DD string of
\* its calendar date, on which the function is idempotent; every string in
\* none of the three forms fails with the error of an unsupported date form.
C15_DateStringNormalization ==
    (op.name = "to_date_string" /\ op.args[1].type = "str") =>
        /\ exc = NoExc =>
              /\ ret = Canonical(op.args[1])
              /\ to_date_string(str(ret)) = [exc |-> NoExc, ret |-> ret]
        /\ ~HasDateForm(op.args[1].s) => (exc = ValueError /\ ret = None)

\* C16 as stated: Temporal date inputs keep only the date part.  For a date,
\* a datetime or a Timestamp, to_date_string returns the YYYY-MM-DD string of
\* its calendar date, without a time, and parse_date returns a plain date.
C16_TemporalKeepsDatePart ==
    /\ (op.name = "to_date_string" /\ op.args[1].type \in {"date", "datetime", "Timestamp"})
          => (exc = NoExc /\ ret = Canonical(op.args[1]))
    /\ (op.name = "parse_date" /\ op.args[1].type \in {"date", "datetime", "Timestamp"})
          => (exc = NoExc /\ ret = CalendarDate(op.args[1]))

\* C17 as stated: Local path matches remote object name.  For every date
\* value both functions accept, the path get_path returns for the full
\* coordinates is the root joined with default_file_name of the same
\* coordinates.
C17_LocalPathMatchesRemoteName ==
    (op.name = "get_path" /\ exc = NoExc /\ op.args[2] # NoDate /\ op.args[3] # <<>>) =>
        LET name == default_file_name(manager.exchange, op.args[1], op.args[2],
                                      op.args[3][1], manager.format)
        IN  name.exc = NoExc => ret = truediv(manager.root_dir, name.ret)

\* the bounds date_range works with: today for an omitted start, the start
\* for an omitted end
RangeStart(o) == IF o.args[1] = NoDate THEN o.args[5] ELSE o.args[1]

RangeEnd(o) == IF o.args[2] = NoDate THEN RangeStart(o) ELSE o.args[2]

\* the days of a result of date_range, as numbers of the calendar
ResultDays(r, to_str) ==
    [i \in 1..Len(r) |->
        IF to_str THEN Ordinal(CalendarDate(str(r[i]))) ELSE Ordinal(r[i])]

\* the days from..to, in ascending order
DaysBetween(from, to) ==
    [i \in 1..(IF to >= from THEN to - from + 1 ELSE 0) |-> from + i - 1]

\* C18 as stated: Date range inclusivity.  For every start <= end,
\* date_range returns, in ascending order and without gaps or duplicates,
\* the days d with start <= d <= end for both, start <= d < end for left,
\* start < d <= end for right and start < d < end for neither.
C18_DateRangeInclusivity ==
    op.name = "date_range" =>
        LET first == Ordinal(CalendarDate(RangeStart(op)))
            last == Ordinal(CalendarDate(RangeEnd(op)))
            inclusive == op.args[3]
        IN  ( /\ DenotesDay(RangeStart(op))
              /\ DenotesDay(RangeEnd(op))
              /\ first <= last
              /\ inclusive \in valid_inclusive )
            => /\ exc = NoExc
               /\ ResultDays(ret, op.args[4]) =
                     DaysBetween(
                        IF inclusive \in {"right", "neither"} THEN first + 1 ELSE first,
                        IF inclusive \in {"left", "neither"} THEN last - 1 ELSE last)

\* C19: Date range rejects inverted bounds.  For every start strictly after
\* end, whatever the inclusivity, date_range fails with an error and returns
\* no sequence; for an inclusivity outside both, neither, left and right it
\* fails as well.
C19_DateRangeRejects ==
    ( /\ op.name = "date_range"
      /\ \/ /\ DenotesDay(RangeStart(op))
            /\ DenotesDay(RangeEnd(op))
            /\ Ordinal(CalendarDate(RangeStart(op))) > Ordinal(CalendarDate(RangeEnd(op)))
         \/ op.args[3] \notin valid_inclusive )
    => (exc # NoExc /\ ret = None)

\* date_range("2025-01-05", "2025-01-01", "both") has failed
C19_Witness ==
    /\ op.name = "date_range"
    /\ op.args[1] = str("2025-01-05")
    /\ op.args[2] = str("2025-01-01")
    /\ op.args[3] = "both"
    /\ exc = ValueError
    /\ ret = None

\* C20 as stated: Listing a missing directory is an error, not an empty
\* list.  list_dates without the exchange/data_type directory, and
\* list_symbols for a given date without the date directory, each fail with
\* a not-found error.
C20_MissingDirectoryIsAnError ==
    /\ ( /\ op.name = "list_dates"
         /\ ~path_exists(disk, get_path(manager, op.args[1], NoDate, <<>>).ret) )
          => exc = FileNotFoundError
    /\ ( /\ op.name = "list_symbols"
         /\ op.args[2] # NoDate
         /\ DenotesDay(op.args[2])
         /\ ~path_exists(disk, get_path(manager, op.args[1], op.args[2], <<>>).ret) )
          => exc = FileNotFoundError

\* get_path has put the unpadded string "2025-8-4" into the path as it was
\* given
C13_Witness ==
    /\ op.name = "get_path"
    /\ op.args[2] = str("2025-8-4")
    /\ op.args[3] # <<>>
    /\ exc = NoExc
    /\ ret.parts[Len(ret.parts) - 1] = "2025-8-4"

\* to_date_string("2025-8-4") has returned its argument
C15_Witness ==
    /\ op.name = "to_date_string"
    /\ op.args[1] = str("2025-8-4")
    /\ exc = NoExc
    /\ ret = "2025-8-4"

\* to_date_string(datetime(2025, 8, 4, 14, 30)) has returned a string with
\* the time of day
C16_Witness ==
    /\ op.name = "to_date_string"
    /\ op.args[1] = datetime(2025, 8, 4, 14, 30)
    /\ exc = NoExc
    /\ ret = "2025-08-04T14:30:00"

\* for a datetime both functions have a value, and the directory of the
\* path is not the directory of the name
C17_Witness ==
    /\ op.name = "get_path"
    /\ op.args[2] = datetime(2025, 8, 4, 14, 30)
    /\ op.args[3] # <<>>
    /\ exc = NoExc
    /\ default_file_name(manager.exchange, op.args[1], op.args[2],
                         op.args[3][1], manager.format).exc = NoExc
    /\ ret.parts[Len(ret.parts) - 1] = "2025-08-04T14:30:00"

\* date_range(datetime(2025, 1, 1, 14, 30), datetime(2025, 1, 5, 10, 0)) has
\* returned four instants
C18_Witness ==
    /\ op.name = "date_range"
    /\ op.args[1] = datetime(2025, 1, 1, 14, 30)
    /\ op.args[2] = datetime(2025, 1, 5, 10, 0)
    /\ op.args[3] = "both"
    /\ exc = NoExc
    /\ Len(ret) = 4

\* list_symbols of a date without a directory has returned the empty list
C20_Witness ==
    /\ op.name = "list_symbols"
    /\ op.args[2] = str("2023-01-01")
    /\ ~path_exists(disk, get_path(manager, op.args[1], op.args[2], <<>>).ret)
    /\ exc = NoExc
    /\ ret = <<>>

\* C25: Get changes nothing except the expired entry it observes.  A get(k)
\* that finds no entry for k, or an unexpired one, leaves the whole dict as it
\* was: payloads, timestamps and ttls, the timestamp of k included.  A get(k)
\* that finds an expired entry for k removes it and leaves every other entry
\* as it was.
C25_GetFrame ==
    [][op'.name = "SimpleCache.get" =>
          LET key == _get_cache_key(op'.url) IN
          IF key \in DOMAIN cache /\ key \notin Live(cache, now)
          THEN cache' = [k \in DOMAIN cache \ {key} |-> cache[k]]
          ELSE cache' = cache]_vars

\* a get removed the expired entry of its key and left the other entry
C25_Witness ==
    /\ op.name = "SimpleCache.get"
    /\ ret = None
    /\ before = 2
    /\ dict_len(cache) = 1
    /\ _get_cache_key(op.url) \notin DOMAIN cache

\* C27: A failed fetch stores nothing.  In every reachable state, a
\* _call_api(url) that goes to the network and whose request fails raises
\* the failure instead of returning a payload, leaves no entry for url (an
\* expired one is gone), leaves every other entry as it was, and the next
\* call for url goes to the network again.
C27_FailedFetchStoresNothing ==
    \A url \in Urls, delay \in NetDelays :
        \A r \in {_call_api(cache, url, now, RequestException, delay)} :
            r.net = 1 =>
               /\ r.exc = RequestException
               /\ r.ret = None
               /\ r.cache = [k \in DOMAIN cache \ {_get_cache_key(url)} |-> cache[k]]
               /\ \A resp \in Responses, again \in NetDelays :
                     _call_api(r.cache, url, r.now, resp, again).net = 1

\* a metadata call found the entry of its url expired, its request failed,
\* and the entry is gone
C27_Witness ==
    /\ op.name \in ApiCalls
    /\ cache_in_use
    /\ net = 1
    /\ ret = "{}"
    /\ _get_cache_key(op.url) \in DOMAIN lastSet
    /\ _get_cache_key(op.url) \notin DOMAIN cache
    /\ before = dict_len(cache) + 1

\* C28: Forced refresh.  After invalidate_cache_entry(url) or clear_cache(),
\* and until something is stored for url again, a get_exchanges or
\* get_exchange_details call for url issues a network request and does not
\* return the payload cached before.
C28_ForcedRefresh ==
    /\ [](op.name = "invalidate_cache_entry" =>
             \A resp \in Responses, delay \in NetDelays :
                 _call_api(cache, op.url, now, resp, delay).net = 1)
    /\ [](op.name = "clear_cache" =>
             \A url \in Urls, resp \in Responses, delay \in NetDelays :
                 _call_api(cache, url, now, resp, delay).net = 1)
    /\ [][(op'.name \in ApiCalls /\ _get_cache_key(op'.url) \notin DOMAIN lastSet)
             => net' = 1]_vars

\* an invalidate has dropped an entry that was not expired
C28_Witness ==
    /\ op.name = "invalidate_cache_entry"
    /\ op.args = <<TRUE>>
    /\ ret = TRUE
    /\ _get_cache_key(op.url) \notin DOMAIN cache

\* C29: A ttl of zero means always expired.  A set with ttl_seconds = 0
\* stores the ttl 0, not the default.  An entry stored with the effective
\* ttl 0 is never returned by a later get, the first get on its key deletes
\* it, and get_stats counts it as expired.  A wrapper built with
\* cache_ttl_seconds = 0 sends every call to the network, unless a set with
\* another ttl has stored the url.
C29_ZeroTtlAlwaysExpired ==
    /\ []((op.name = "SimpleCache.set" /\ op.args[2] = <<0>>) =>
             cache[_get_cache_key(op.url)][3] = 0)
    /\ [](op.name = "SimpleCache.get" =>
             LET key == _get_cache_key(op.url) IN
             (key \in DOMAIN lastSet /\ lastSet[key][3] = 0) =>
                 (ret = None /\ key \notin DOMAIN cache))
    /\ [](\A k \in DOMAIN cache :
             cache[k][3] = 0 =>
                /\ k \notin Live(cache, now)
                /\ SimpleCache_get_stats([x \in {k} |-> cache[k]], now).ret.expired_entries = 1)
    /\ [](op.name = "SimpleCache.get_stats" =>
             ret.expired_entries >= Cardinality({k \in DOMAIN cache : cache[k][3] = 0}))
    /\ [][(/\ op'.name \in ApiCalls
           /\ cache_ttl_seconds = 0
           /\ LET key == _get_cache_key(op'.url) IN
              key \in DOMAIN lastSet => lastSet[key][3] = 0)
             => net' = 1]_vars

\* a get at the instant of a set with ttl_seconds = 0 found the entry
\* expired and deleted it
C29_Witness ==
    /\ op.name = "SimpleCache.get"
    /\ ret = None
    /\ _get_cache_key(op.url) \in DOMAIN lastSet
    /\ lastSet[_get_cache_key(op.url)][2] = now
    /\ lastSet[_get_cache_key(op.url)][3] = 0
    /\ default_ttl # 0
    /\ before = dict_len(cache) + 1

\* the symbols s that have a file s.<format>.gz in the directory dir
SymbolsIn(self, tree, dir) ==
    {s \in Symbols :
        \E q \in children(tree, dir) :
            /\ tree[q] = "file"
            /\ path_name(q) = s \o "." \o self.format \o ".gz"}

\* C21: Symbol listing reflects the files on disk.  For a date whose
\* directory exists, list_symbols returns without error, in ascending order,
\* exactly the symbols s that have a file s.<format>.gz in that directory;
\* so a file at get_path(data_type, date, s) makes s appear in the listing.
C21_SymbolListingReflectsDisk ==
    (/\ op.name = "list_symbols"
     /\ op.args[2] # NoDate
     /\ get_path(manager, op.args[1], op.args[2], <<>>).exc = NoExc
     /\ path_is_dir(disk, get_path(manager, op.args[1], op.args[2], <<>>).ret))
    => /\ exc = NoExc
       /\ {ret[i] : i \in 1..Len(ret)}
            = SymbolsIn(manager, disk,
                        get_path(manager, op.args[1], op.args[2], <<>>).ret)
       /\ \A i \in 1..Len(ret), j \in 1..Len(ret) : i < j => str_lt(ret[i], ret[j])
       /\ \A s \in Symbols :
             path_exists(disk, get_path(manager, op.args[1], op.args[2], <<s>>).ret)
                => \E i \in 1..Len(ret) : ret[i] = s

\* list_symbols of a date directory that holds BTC-PERPETUAL.csv.gz has
\* returned the empty list
C21_Witness ==
    /\ op.name = "list_symbols"
    /\ op.args = <<"trades", str("2023-01-01")>>
    /\ manager.format = "csv"
    /\ path_exists(disk, get_path(manager, "trades", str("2023-01-01"),
                                  <<"BTC-PERPETUAL">>).ret)
    /\ exc = NoExc
    /\ ret = <<>>

Listings == {"list_exchanges", "list_exchange_symbols", "list_exchange_symbol_infos"}

\* C30: Metadata listings degrade gracefully on upstream failure.  When the
\* request of the wrapper has failed and the wrapper has returned its empty
\* document, list_exchanges, list_exchange_symbols and
\* list_exchange_symbol_infos each return the empty list and raise nothing.
C30_ListingsDegradeGracefully ==
    (op.name \in Listings /\ op.args[2]) =>
        /\ op.args[1] = "{}"
        /\ exc = NoExc
        /\ ret = <<>>

\* the request for the details of the exchange has failed, and
\* list_exchange_symbols has raised KeyError
C30_Witness ==
    /\ op.name = "list_exchange_symbols"
    /\ op.args = <<"{}", TRUE>>
    /\ net = 1
    /\ exc = KeyError

BatchName == "batch_download_by_date_range"

\* every item of the dict a sequential batch returned is True
AllSucceeded(r) == r.type = "dict" /\ \A it \in DOMAIN r.items : r.items[it]

\* C24: Re-running a sequential batch downloads nothing.  After a
\* sequential batch_download_by_date_range has returned True for every item,
\* each file written by the client under default_file_name, the same batch
\* run again calls the client not at all and returns True for every item.
C24_RerunDownloadsNothing ==
    [][(/\ op.name = BatchName
        /\ op.args[5]
        /\ exc = NoExc
        /\ AllSucceeded(ret)
        /\ op'.name = BatchName
        /\ SubSeq(op'.args, 1, 5) = SubSeq(op.args, 1, 5))
          => /\ exc' = NoExc
             /\ AllSucceeded(ret')
             /\ DOMAIN ret'.items = DOMAIN ret.items
             /\ downloads' = <<>>
             /\ disk' = disk]_vars

\* a sequential batch has succeeded for every item, each file is where
\* default_file_name puts it, and no item's get_path target exists
C24_Witness ==
    /\ op.name = BatchName
    /\ op.args[5]
    /\ exc = NoExc
    /\ AllSucceeded(ret)
    /\ DOMAIN ret.items # {}
    /\ \A it \in DOMAIN ret.items :
          /\ path_exists(disk, truediv(manager.root_dir,
                 default_file_name(manager.exchange, it[1], it[2], it[3],
                                   manager.format).ret))
          /\ ~path_exists(disk, get_path(manager, it[1], it[2], <<it[3]>>).ret)

\* the work items of a batch: its data types and symbols, and the days
\* from start_date up to the day before end_date as numbers of the calendar
BatchItems(o) ==
    {<<o.args[1][i], n, o.args[2][j]>> :
        i \in 1..Len(o.args[1]),
        n \in Ordinal(CalendarDate(o.args[3])) .. (Ordinal(CalendarDate(o.args[4])) - 1),
        j \in 1..Len(o.args[2])}

\* C22: Batch downloads isolate failures.  For every batch over a range
\* start_date <= end_date and whichever items fail, the caller receives a
\* result for each (data_type, date, symbol) work item and for nothing else,
\* and every item that is reported failed was attempted: the client was
\* called for it, whatever happened to the items before it.
C22_BatchIsolatesFailures ==
    (/\ op.name = BatchName
     /\ Ordinal(CalendarDate(op.args[3])) <= Ordinal(CalendarDate(op.args[4])))
    => /\ exc = NoExc
       /\ ret.type = "dict"
       /\ {<<it[1], Ordinal(it[2]), it[3]>> : it \in DOMAIN ret.items} = BatchItems(op)
       /\ \A it \in DOMAIN ret.items :
             ret.items[it] \/ \E i \in 1..Len(downloads) :
                                  downloads[i] = vendor_call(<<it[1]>>, <<it[3]>>, it[2], it[2])

\* a non-sequential batch in which one item was written and another failed
\* has returned the one value False
C22_Witness ==
    /\ op.name = BatchName
    /\ ~op.args[5]
    /\ \E i, j \in 1..Len(op.args[6]) : op.args[6][i] = "ok" /\ op.args[6][j] = "error"
    /\ exc = NoExc
    /\ ret = py_bool(FALSE)
    /\ Len(downloads) = 1

\* C23: No cache operation raises under interleaving.  When two threads run
\* get, invalidate_cache_entry, clear or get_stats on the same SimpleCache,
\* with thread switches between the membership test, the read of the entry
\* and the delete, no operation raises: an entry is not deleted twice, not
\* read after it was removed, and every operation ends with a return.
C23_NoRaiseUnderInterleaving ==
    \A t \in Threads : threads[t].exc = NoExc

\* two gets of the same url have found its entry expired; one has deleted
\* it and returned None, the other has raised KeyError at its del
C23_Witness ==
    /\ threads["t1"].name = "get"
    /\ threads["t2"].name = "get"
    /\ threads["t1"].url = threads["t2"].url
    /\ threads["t1"].pc = "done"
    /\ threads["t2"].pc = "done"
    /\ threads["t1"].exc = NoExc
    /\ threads["t1"].ret = None
    /\ threads["t2"].exc = KeyError
    /\ threads["t2"].entry[1] # None
    /\ _get_cache_key(threads["t2"].url) \notin DOMAIN cache

=============================================================================
